---------------------------- MODULE Spec2Model ----------------------------
(***************************************************************************)
(* Recommendation service: the client API module (getHomeRecommendations,  *)
(* getProductRecommendations, searchRecommendations, trackInteraction),    *)
(* the pages that call the service (ProductPage, SearchPage), the          *)
(* per-user interaction tables and the ranking service behind the          *)
(* /recommendations and /interactions endpoints.                           *)
(*                                                                         *)
(* The Python service (routers/, services/, database/, ml/) is not part of *)
(* the JavaScript sources; its endpoints are modelled from their           *)
(* documented contract and are marked as such in the map of definitions.   *)
(***************************************************************************)
EXTENDS Integers, Sequences, FiniteSets, TLC

VARIABLES
    clock,      \* wall clock of the database server, in days
    store,      \* store[u]: rows of table {u}_interactions, in insertion order
    pending,    \* record calls that hold a timestamp and have not committed yet
    completed,  \* per user, the call ids of committed record calls, in commit order
    nextCall,   \* id handed to the next record call
    published,  \* published[k]: the snapshot of kind k that requests read
    staging,    \* staging[k]: the snapshot a running rebuild of kind k is filling
    builds,     \* number of rebuilds started so far
    readers,    \* snapshots captured by requests that are being served
    resp,       \* outcome of the last client call or page load
    baseline,   \* per item, its popularity score when interactions were last added
    time,       \* Date.now() of the account service, in seconds
    users,      \* documents of the User collection
    tempRegs,   \* documents of the TemporaryRegistration collection
    mailbox,    \* one-time passwords sent by e-mail
    requests,   \* account requests that are being handled
    replies,    \* what the account service answered last
    tally,      \* per issued one-time password, how it has been tried
    localStorage, \* userId and token the browser keeps
    page,       \* the route the browser shows and the state of its query
    outbox,     \* requests the browser has sent since the last user gesture
    gesture     \* the last user gesture

recVars == <<clock, store, pending, completed, nextCall, published, staging,
             builds, readers, resp>>

authVars == <<time, users, tempRegs, mailbox, requests, replies, tally>>

uiVars == <<localStorage, page, outbox, gesture>>

vars == <<recVars, baseline, authVars, uiVars>>

NULL == "null"

(* an absent optional argument or field that would hold a number or a query *)
Undefined == <<>>
NoQuery == <<NULL>>

----------------------------------------------------------------------------
(* Bounds of the model *)

MaxEvents == 2      \* rows over all interaction tables
MaxClock == 31      \* last day the clock reaches
MaxCalls == 2       \* record calls in one concurrent run
MaxTicks == 1       \* popularity ticks in one sequential run
MaxBuilds == 2      \* rebuilds started while requests are served
MaxReaders == 1     \* requests served at the same time as a rebuild
MaxDecayTicks == 3  \* popularity ticks in a run of ticks and clicks
MaxOtps == 3        \* one-time passwords issued for one purpose
MaxVerifies == 5    \* verify requests counted on one temporary registration
MaxTime == 120      \* last second at which the account service clock advances
MaxInFlight == 2    \* verify requests handled at the same time
MaxResets == 2      \* reset OTPs issued while verify requests overlap

----------------------------------------------------------------------------
(* Program constants *)

HOME_DEFAULT_LIMIT == 20
HOME_MAX_LIMIT == 60
SEARCH_DEFAULT_LIMIT == 2000
SEARCH_MAX_LIMIT == 6000
MIN_LIMIT == 1
PRODUCT_ID_LENGTH == 10
USER_ID_MAX_LENGTH == 50
RETENTION_DAYS == 30
STALE_DAYS == 30
PAGE_RESPONSE_LIMIT == 20
SEARCH_PAGE_LIMIT == 2000

----------------------------------------------------------------------------
(* Characters of the strings the model uses.  TLC treats a string as an    *)
(* atom, so the characters a regular expression looks at are tabulated.    *)

Upper == {"A","B","C","D","E","F","G","H","I","J","K","L","M",
          "N","O","P","Q","R","S","T","U","V","W","X","Y","Z"}
Lower == {"a","b","c","d","e","f","g","h","i","j","k","l","m",
          "n","o","p","q","r","s","t","u","v","w","x","y","z"}
Digit == {"0","1","2","3","4","5","6","7","8","9"}

Chars(s) ==
    CASE s = "B08CF3D7QR"  -> <<"B","0","8","C","F","3","D","7","Q","R">>
      [] s = "AF321D06AE"  -> <<"A","F","3","2","1","D","0","6","A","E">>
      [] s = "ABCD1234XY"  -> <<"A","B","C","D","1","2","3","4","X","Y">>
      [] s = "RS00000001"  -> <<"R","S","0","0","0","0","0","0","0","1">>
      [] s = "ZZZZZZZZZ9"  -> <<"Z","Z","Z","Z","Z","Z","Z","Z","Z","9">>
      [] s = "UNKNOWNID01" -> <<"U","N","K","N","O","W","N","I","D","0","1">>
      [] s = "b08cf3d7qr"  -> <<"b","0","8","c","f","3","d","7","q","r">>
      [] s = "U12345"      -> <<"U","1","2","3","4","5">>
      [] s = "user123"     -> <<"u","s","e","r","1","2","3">>
      [] s = "user 123"    -> <<"u","s","e","r"," ","1","2","3">>
      [] s = "null (text)" -> <<"n","u","l","l">>
      [] OTHER             -> <<>>

(* /^[A-Z0-9]{10}$/.test(productId) *)
IsProductIdFormat(s) ==
    /\ Len(Chars(s)) = PRODUCT_ID_LENGTH
    /\ \A i \in 1..Len(Chars(s)) : Chars(s)[i] \in Upper \cup Digit

(* /^[a-zA-Z0-9]{1,50}$/.test(userId) *)
IsUserIdFormat(s) ==
    /\ Len(Chars(s)) >= 1
    /\ Len(Chars(s)) <= USER_ID_MAX_LENGTH
    /\ \A i \in 1..Len(Chars(s)) : Chars(s)[i] \in Upper \cup Lower \cup Digit

(* String.prototype.toUpperCase on the identifiers the model uses *)
ToUpperCase(s) ==
    CASE s = "b08cf3d7qr" -> "B08CF3D7QR"
      [] OTHER            -> s

----------------------------------------------------------------------------
(* Queries are sequences of lexemes: a word, or " " for a run of blanks.   *)

Blank == " "

RECURSIVE DropLeadingBlanks(_)
DropLeadingBlanks(q) ==
    IF q # <<>> /\ Head(q) = Blank THEN DropLeadingBlanks(Tail(q)) ELSE q

RECURSIVE DropTrailingBlanks(_)
DropTrailingBlanks(q) ==
    IF q # <<>> /\ q[Len(q)] = Blank
    THEN DropTrailingBlanks(SubSeq(q, 1, Len(q) - 1))
    ELSE q

(* String.prototype.trim / str.strip *)
Trim(q) == DropTrailingBlanks(DropLeadingBlanks(q))

(* lower-casing of one word *)
LowerWord(w) ==
    CASE w = "Earbuds" -> "earbuds"
      [] OTHER         -> w

----------------------------------------------------------------------------
(* Catalog: the rows of the products table (read-only to the service).     *)

CatalogOrder == <<"ABCD1234XY", "AF321D06AE", "B08CF3D7QR", "RS00000001">>

ItemIds == {CatalogOrder[i] : i \in 1..Len(CatalogOrder)}

(* position of an identifier in ascending identifier order *)
IdRank(id) == CHOOSE i \in 1..Len(CatalogOrder) : CatalogOrder[i] = id

Catalog ==
    [id \in ItemIds |->
        CASE id = "B08CF3D7QR" ->
               [name |-> {"wireless", "headphones"}, category |-> "electronics",
                rating |-> 45, reviews |-> 1500, price |-> 60, original_price |-> 100]
          [] id = "ABCD1234XY" ->
               [name |-> {"wireless", "earphones"}, category |-> "electronics",
                rating |-> 40, reviews |-> 800, price |-> 30, original_price |-> 40]
          [] id = "AF321D06AE" ->
               [name |-> {"silicone", "earphones"}, category |-> "fashion",
                rating |-> 35, reviews |-> 115, price |-> 243, original_price |-> 1240]
          [] OTHER ->
               [name |-> {"red", "shoes"}, category |-> "footwear",
                rating |-> 42, reviews |-> 115, price |-> 84, original_price |-> 90]]

Categories == {Catalog[i].category : i \in ItemIds}

Users == {"U12345", "user123"}

----------------------------------------------------------------------------
(* Sequences and orderings *)

Take(s, n) == IF n >= Len(s) THEN s ELSE SubSeq(s, 1, n)

SeqToSet(s) == {s[i] : i \in 1..Len(s)}

RECURSIVE SelectSeq2(_, _)
(* the elements of s that are in set S, in the order of s *)
SelectSeq2(s, S) ==
    IF s = <<>> THEN <<>>
    ELSE IF Head(s) \in S THEN <<Head(s)>> \o SelectSeq2(Tail(s), S)
         ELSE SelectSeq2(Tail(s), S)

RECURSIVE SortBy(_, _)
(* the elements of S as a sequence; before[x][y] says x precedes y *)
SortBy(S, before) ==
    IF S = {} THEN <<>>
    ELSE LET m == CHOOSE x \in S : \A y \in S \ {x} : before[x][y]
         IN  <<m>> \o SortBy(S \ {m}, before)

RECURSIVE SumOver(_, _)
(* sum of f[x] over the elements of S *)
SumOver(S, f) ==
    IF S = {} THEN 0
    ELSE LET x == CHOOSE y \in S : TRUE IN f[x] + SumOver(S \ {x}, f)

MaxOver(S, f) ==
    IF S = {} THEN 0 ELSE LET x == CHOOSE y \in S : \A z \in S : f[y] >= f[z] IN f[x]

RECURSIVE Pow(_, _)
Pow(b, n) == IF n = 0 THEN 1 ELSE b * Pow(b, n - 1)

----------------------------------------------------------------------------
(* Interaction Store: one table per user,                                  *)
(* (event_type, product_id, query, timestamp DEFAULT NOW()).               *)

EventTypes == {"product_click", "search_query"}

(* a defect: only the user and the event kind are checked *)
ValidateEventTypeOnly(body) ==
    IF ~IsUserIdFormat(body.user_id) THEN 422
    ELSE IF body.event_type \notin EventTypes THEN 422
    ELSE 200

(* POST /interactions: the status the service answers for a request body *)
ValidateInteraction(body) ==
    IF ~IsUserIdFormat(body.user_id) THEN 422
    ELSE IF body.event_type \notin EventTypes THEN 422
    ELSE IF body.event_type = "product_click"
         THEN IF body.product_id = NULL THEN 400
              ELSE IF ~IsProductIdFormat(body.product_id) THEN 422
              ELSE 200
         ELSE IF body.query = NoQuery THEN 400
              ELSE IF Trim(body.query) = <<>> THEN 400
              ELSE 200

(* the row an accepted body becomes; the timestamp column defaults to NOW() *)
Row(body, now) ==
    [event_type |-> body.event_type, product_id |-> body.product_id,
     query |-> body.query, timestamp |-> now]

(* INSERT INTO {user_id}_interactions *)
InsertRow(tables, u, row) == [tables EXCEPT ![u] = Append(@, row)]

(* SELECT ... ORDER BY timestamp: rows of equal timestamp keep table order *)
OrderByTimestamp(rows) ==
    LET idx == 1..Len(rows)
        before == [i \in idx |-> [j \in idx |->
                     \/ rows[i].timestamp < rows[j].timestamp
                     \/ rows[i].timestamp = rows[j].timestamp /\ i < j]]
        order == SortBy(idx, before)
    IN  [k \in 1..Len(rows) |-> rows[order[k]]]

(* read(userId, windowDays): the user's events of the last windowDays days, *)
(* in timestamp order; empty for a user without a table                     *)
ReadInteractions(tables, u, days, now) ==
    IF u \notin DOMAIN tables THEN <<>>
    ELSE SelectSeq(OrderByTimestamp(tables[u]),
                   LAMBDA r : now - r.timestamp <= days)

TotalRows(tables) ==
    LET n == [u \in DOMAIN tables |-> Len(tables[u])] IN SumOver(DOMAIN tables, n)

EmptyTables == [u \in Users |-> <<>>]

Clicks(rows) == SelectSeq(rows, LAMBDA r : r.event_type = "product_click")

Searches(rows) == SelectSeq(rows, LAMBDA r : r.event_type = "search_query")

ClickedItems(rows) ==
    {Clicks(rows)[i].product_id : i \in DOMAIN Clicks(rows)} \cap ItemIds

----------------------------------------------------------------------------
(* Similarity Index: neighbours by similarity of name and category.        *)

TOP_K == 20

Features(item) == Catalog[item].name \cup {Catalog[item].category}

(* similarity of two items in hundredths, from their text features only *)
SimilarityScore(a, b) ==
    (100 * Cardinality(Features(a) \cap Features(b)))
        \div Cardinality(Features(a) \cup Features(b))

(* the top-K edges of one item: descending score, then ascending identifier; *)
(* no edge from an item to itself                                            *)
NeighborsOf(item) ==
    LET cand == {j \in ItemIds \ {item} : SimilarityScore(item, j) > 0}
        before == [x \in cand |-> [y \in cand |->
                     \/ SimilarityScore(item, x) > SimilarityScore(item, y)
                     \/ /\ SimilarityScore(item, x) = SimilarityScore(item, y)
                        /\ IdRank(x) < IdRank(y)]]
        order == Take(SortBy(cand, before), TOP_K)
    IN  [k \in 1..Len(order) |->
            [id |-> order[k], score |-> SimilarityScore(item, order[k])]]

----------------------------------------------------------------------------
(* Popularity Tracker: score = num / DECAY_DEN^exp, decayed on every tick. *)

DECAY_NUM == 19
DECAY_DEN == 20

(* clicks on item in the rows that arrived after the previous tick *)
FreshCount(item, input, counted) ==
    LET n == [u \in Users |->
                Cardinality({i \in (counted[u] + 1)..Len(input[u]) :
                    /\ input[u][i].event_type = "product_click"
                    /\ input[u][i].product_id = item})]
    IN  SumOver(Users, n)

(* a defect: a tick that keeps the old score whole *)
DecayedScoreNoDecay(oldNum, oldExp, fresh) ==
    DECAY_DEN * oldNum + fresh * Pow(DECAY_DEN, oldExp + 1)

(* one tick for one item: the old score times the decay factor, plus the   *)
(* fresh interaction count                                                  *)
DecayedScore(oldNum, oldExp, fresh) ==
    DECAY_NUM * oldNum + fresh * Pow(DECAY_DEN, oldExp + 1)

----------------------------------------------------------------------------
(* Co-occurrence Miner: rules between items clicked by the same user.      *)

MIN_SUPPORT == 1

(* the click sequence of each user inside the retention window *)
ClickSequences(input, now) ==
    [u \in Users |-> ClickedItems(ReadInteractions(input, u, RETENTION_DAYS, now))]

Support(S, seqs) == Cardinality({u \in DOMAIN seqs : S \subseteq seqs[u]})

(* rules a -> b of one antecedent: descending confidence, then descending  *)
(* support, then ascending identifier                                       *)
ConsequentsOf(a, input, now) ==
    LET seqs == ClickSequences(input, now)
        cand == {b \in ItemIds \ {a} : Support({a, b}, seqs) >= MIN_SUPPORT}
        before == [x \in cand |-> [y \in cand |->
                     \/ Support({a, x}, seqs) > Support({a, y}, seqs)
                     \/ /\ Support({a, x}, seqs) = Support({a, y}, seqs)
                        /\ IdRank(x) < IdRank(y)]]
        order == SortBy(cand, before)
    IN  [k \in 1..Len(order) |->
            [id |-> order[k], support |-> Support({a, order[k]}, seqs),
             antecedent_support |-> Support({a}, seqs)]]

----------------------------------------------------------------------------
(* Snapshots.  A snapshot holds the entries of the items built so far; it  *)
(* is complete when every catalog item has its entry.                      *)

Kinds == {"similarity", "popularity", "rules"}

BuildEntry(k, item, prev, input, now) ==
    CASE k = "similarity" -> NeighborsOf(item)
      [] k = "popularity" ->
            DecayedScore(prev.data[item], prev.meta.exp,
                         FreshCount(item, input, prev.meta.counted))
      [] OTHER -> ConsequentsOf(item, input, now)

BuildMeta(k, prev, input) ==
    IF k = "popularity"
    THEN [exp |-> prev.meta.exp + 1,
          counted |-> [u \in Users |-> Len(input[u])]]
    ELSE prev.meta

(* the snapshot of kind k with the entries of the items in S *)
BuildOf(k, S, prev, input, now) ==
    [built |-> S,
     data |-> [i \in S |-> BuildEntry(k, i, prev, input, now)],
     meta |-> BuildMeta(k, prev, input)]

IsComplete(snap) == snap.built = ItemIds

(* what the service publishes before the first interaction arrives *)
InitialSnapshot(k) ==
    CASE k = "similarity" ->
            [built |-> ItemIds, data |-> [i \in ItemIds |-> NeighborsOf(i)],
             meta |-> [exp |-> 0, counted |-> [u \in Users |-> 0]]]
      [] k = "popularity" ->
            [built |-> ItemIds, data |-> [i \in ItemIds |-> 0],
             meta |-> [exp |-> 0, counted |-> [u \in Users |-> 0]]]
      [] OTHER ->
            [built |-> ItemIds, data |-> [i \in ItemIds |-> <<>>],
             meta |-> [exp |-> 0, counted |-> [u \in Users |-> 0]]]

----------------------------------------------------------------------------
(* Component reads over published snapshots *)

EntryOf(snap, item, missing) ==
    IF item \in snap.built THEN snap.data[item] ELSE missing

(* neighbors(itemId, limit) *)
Neighbors(sim, item, limit) == Take(EntryOf(sim, item, <<>>), limit)

(* scoreOf(itemId), as the numerator over DECAY_DEN^exp *)
ScoreOf(pop, item) == EntryOf(pop, item, 0)

(* items by descending score, then descending rating count, then identifier *)
TrendingOrder(pop, S) ==
    LET before == [x \in S |-> [y \in S |->
                     \/ ScoreOf(pop, x) > ScoreOf(pop, y)
                     \/ /\ ScoreOf(pop, x) = ScoreOf(pop, y)
                        /\ Catalog[x].reviews > Catalog[y].reviews
                     \/ /\ ScoreOf(pop, x) = ScoreOf(pop, y)
                        /\ Catalog[x].reviews = Catalog[y].reviews
                        /\ IdRank(x) < IdRank(y)]]
    IN  SortBy(S, before)

(* top(n) *)
Top(pop, n) == Take(TrendingOrder(pop, ItemIds), n)

(* coOccurring(itemId, limit): the consequents, best rule first *)
CoOccurring(rules, item, limit) ==
    LET e == Take(EntryOf(rules, item, <<>>), limit)
    IN  [k \in 1..Len(e) |-> e[k].id]

----------------------------------------------------------------------------
(* Query Expander *)

Synonyms(w) ==
    CASE w = "earbuds" -> {"earphones"}
      [] OTHER         -> {}

(* expand(query): the lower-cased words of the trimmed query and their synonyms *)
Expand(query) ==
    LET t == Trim(query)
        words == {LowerWord(t[i]) : i \in 1..Len(t)} \ {Blank}
    IN  words \cup UNION {Synonyms(w) : w \in words}

MatchScore(tokens, item) == Cardinality(tokens \cap Features(item))

(* match(tokens): items by descending overlap, then descending rating *)
Match(tokens) ==
    LET cand == {i \in ItemIds : MatchScore(tokens, i) > 0}
        before == [x \in cand |-> [y \in cand |->
                     \/ MatchScore(tokens, x) > MatchScore(tokens, y)
                     \/ /\ MatchScore(tokens, x) = MatchScore(tokens, y)
                        /\ Catalog[x].rating > Catalog[y].rating
                     \/ /\ MatchScore(tokens, x) = MatchScore(tokens, y)
                        /\ Catalog[x].rating = Catalog[y].rating
                        /\ IdRank(x) < IdRank(y)]]
    IN  SortBy(cand, before)

----------------------------------------------------------------------------
(* Hybrid Ranker *)

WEIGHT_CLICKED == 5
WEIGHT_SEARCH == 4
WEIGHT_DIVERSE == 1

LastTimestamp(rows) ==
    LET ts == [i \in 1..Len(rows) |-> rows[i].timestamp] IN MaxOver(1..Len(rows), ts)

(* a defect: a history is never taken for stale *)
UserStateNeverStale(tables, u, now) ==
    IF u \notin DOMAIN tables \/ tables[u] = <<>> THEN "NEW_USER"
    ELSE "ACTIVE_USER"

(* a defect: a user without events is taken for an active one *)
UserStateNeverNew(tables, u, now) ==
    IF u \in DOMAIN tables /\ tables[u] # <<>>
       /\ now - LastTimestamp(tables[u]) > STALE_DAYS
    THEN "STALE_USER" ELSE "ACTIVE_USER"

(* NEW_USER, ACTIVE_USER or STALE_USER *)
UserState(tables, u, now) ==
    IF u \notin DOMAIN tables \/ tables[u] = <<>> THEN "NEW_USER"
    ELSE IF now - LastTimestamp(tables[u]) > STALE_DAYS THEN "STALE_USER"
    ELSE "ACTIVE_USER"

(* recency weight of an event: strictly decreasing with its age *)
RecencyWeight(row, now) == RETENTION_DAYS + 1 - (now - row.timestamp)

EdgeScore(sim, from, to) ==
    LET e == EntryOf(sim, from, <<>>)
        hit == {k \in 1..Len(e) : e[k].id = to}
    IN  IF hit = {} THEN 0 ELSE e[CHOOSE k \in hit : TRUE].score

(* partial ranking from the clicked items: neighbour scores, summed *)
ClickedScores(sim, rows, now) ==
    LET c == Clicks(rows)
    IN  [i \in ItemIds |->
            LET f == [k \in 1..Len(c) |->
                        IF c[k].product_id \in ItemIds
                        THEN RecencyWeight(c[k], now) * EdgeScore(sim, c[k].product_id, i)
                        ELSE 0]
            IN  SumOver(1..Len(c), f)]

(* partial ranking from the search events: overlap scores, summed *)
SearchScores(rows, now) ==
    LET q == Searches(rows)
    IN  [i \in ItemIds |->
            LET f == [k \in 1..Len(q) |->
                        RecencyWeight(q[k], now) * MatchScore(Expand(q[k].query), i)]
            IN  SumOver(1..Len(q), f)]

(* categories with the fewest clicked items in the user's history *)
UnderRepresented(rows) ==
    LET n == [c \in Categories |->
                Cardinality({i \in ClickedItems(rows) : Catalog[i].category = c})]
    IN  {c \in Categories : \A d \in Categories : n[c] <= n[d]}

(* a defect: the sample is drawn from every category *)
DiversitySamplesAnyCategory(rows) ==
    {{p[c] : c \in Categories} :
        p \in {f \in [Categories -> ItemIds] :
                  \A c \in Categories : Catalog[f[c]].category = c}}

(* the samples the diversity slice can draw: one item of each              *)
(* under-represented category                                              *)
DiversitySamples(rows) ==
    LET cats == UnderRepresented(rows)
        picks == [cats -> ItemIds]
    IN  {{p[c] : c \in cats} :
            p \in {f \in picks : \A c \in cats : Catalog[f[c]].category = c}}

NonZero(n) == IF n = 0 THEN 1 ELSE n

(* composite score over the common denominator maxC * maxS * maxD: each    *)
(* component is divided by its maximum, then weighted and summed           *)
CompositeScores(clicked, search, sample) ==
    LET diverse == [i \in ItemIds |-> IF i \in sample THEN 1 ELSE 0]
        mc == NonZero(MaxOver(ItemIds, clicked))
        ms == NonZero(MaxOver(ItemIds, search))
        md == NonZero(MaxOver(ItemIds, diverse))
    IN  [i \in ItemIds |->
            WEIGHT_CLICKED * clicked[i] * ms * md
          + WEIGHT_SEARCH * search[i] * mc * md
          + WEIGHT_DIVERSE * diverse[i] * mc * ms]

(* descending composite score, then ascending identifier *)
RankByScore(score) ==
    LET cand == {i \in ItemIds : score[i] > 0}
        before == [x \in cand |-> [y \in cand |->
                     \/ score[x] > score[y]
                     \/ score[x] = score[y] /\ IdRank(x) < IdRank(y)]]
    IN  SortBy(cand, before)

(* items by ascending price per rating point, then ascending identifier *)
BestValue ==
    LET before == [x \in ItemIds |-> [y \in ItemIds |->
                     \/ Catalog[x].price * Catalog[y].rating
                          < Catalog[y].price * Catalog[x].rating
                     \/ /\ Catalog[x].price * Catalog[y].rating
                             = Catalog[y].price * Catalog[x].rating
                        /\ IdRank(x) < IdRank(y)]]
    IN  SortBy(ItemIds, before)

CategoryTrending(pop) ==
    [c \in Categories |->
        TrendingOrder(pop, {i \in ItemIds : Catalog[i].category = c})]

(* the merged, personalised ranking of an ACTIVE_USER *)
Personalized(snaps, rows, now, sample) ==
    RankByScore(CompositeScores(ClickedScores(snaps.similarity, rows, now),
                                SearchScores(rows, now), sample))

(* rank_home: the full ranking, before the result limit is applied *)
RankHome(snaps, tables, u, now, sample) ==
    LET state == UserState(tables, u, now)
        rows == ReadInteractions(tables, u, RETENTION_DAYS, now)
        active == state = "ACTIVE_USER"
    IN  [user_state |-> state,
         personalized |-> IF active THEN Personalized(snaps, rows, now, sample) ELSE <<>>,
         trending |-> Top(snaps.popularity, Cardinality(ItemIds)),
         best_value |-> BestValue,
         top_categories |-> CategoryTrending(snaps.popularity),
         diverse_picks |-> IF active
                           THEN SelectSeq2(CatalogOrder, sample) ELSE <<>>]

(* the samples rank_home can draw for a user *)
HomeSamples(tables, u, now) ==
    IF UserState(tables, u, now) = "ACTIVE_USER"
    THEN DiversitySamples(ReadInteractions(tables, u, RETENTION_DAYS, now))
    ELSE {{}}

(* most recent click of the user the request carries, if any *)
LastClick(tables, u, now) ==
    LET c == IF u = NULL THEN <<>>
             ELSE Clicks(ReadInteractions(tables, u, RETENTION_DAYS, now))
    IN  IF c = <<>> THEN NULL ELSE c[Len(c)].product_id

(* trending, led by the co-occurrence consequents of the last click *)
TrendingFallback(snaps, last) ==
    LET cons == IF last = NULL THEN <<>>
                ELSE CoOccurring(snaps.rules, last, Cardinality(ItemIds))
        trending == Top(snaps.popularity, Cardinality(ItemIds))
    IN  cons \o SelectSeq2(trending, ItemIds \ SeqToSet(cons))

(* a defect: an empty match set is returned as it is *)
RankSearchNoFallback(snaps, tables, u, query, now) ==
    [results |-> Match(Expand(query)), fallback_reason |-> NULL]

(* rank_search: direct matches, or the annotated trending fallback *)
RankSearch(snaps, tables, u, query, now) ==
    LET m == Match(Expand(query))
    IN  IF m # <<>>
        THEN [results |-> m, fallback_reason |-> NULL]
        ELSE [results |-> TrendingFallback(snaps, LastClick(tables, u, now)),
              fallback_reason |-> "no_search_matches"]

(* a defect: the neighbours alone, without the requested item *)
RankSimilarNeighborsOnly(snaps, item) ==
    LET e == Neighbors(snaps.similarity, item, TOP_K)
    IN  [k \in 1..Len(e) |-> e[k].id]

(* rank_similar: what the service lists for a catalog item.  The           *)
(* documented response to GET /recommendations/product/B08CF3D7QR lists    *)
(* B08CF3D7QR itself, and ProductPage looks the product up in the list.    *)
RankSimilar(snaps, item) ==
    LET e == Neighbors(snaps.similarity, item, TOP_K)
    IN  <<item>> \o [k \in 1..Len(e) |-> e[k].id]

----------------------------------------------------------------------------
(* Service boundary: validation, result limit, status codes *)

MathMax(a, b) == IF a >= b THEN a ELSE b
MathMin(a, b) == IF a <= b THEN a ELSE b

(* response_limit: the default when absent, else clamped to [1, max] *)
ServerLimit(limit, default, max) ==
    IF limit = Undefined THEN default
    ELSE MathMin(MathMax(limit[1], MIN_LIMIT), max)

ErrorResponse(code) == [status |-> code, body |-> NULL]

(* GET /recommendations/home *)
HomeEndpoint(snaps, tables, now, user_id, limit, sample) ==
    IF ~IsUserIdFormat(user_id) THEN ErrorResponse(400)
    ELSE LET n == ServerLimit(limit, HOME_DEFAULT_LIMIT, HOME_MAX_LIMIT)
             r == RankHome(snaps, tables, user_id, now, sample)
         IN  [status |-> 200,
              body |-> [user_state |-> r.user_state,
                        personalized |-> Take(r.personalized, n),
                        trending |-> Take(r.trending, n),
                        best_value |-> Take(r.best_value, n),
                        top_categories |->
                            [c \in Categories |-> Take(r.top_categories[c], n)],
                        diverse_picks |-> Take(r.diverse_picks, n)]]

(* GET /recommendations/product/{product_id} *)
ProductEndpoint(snaps, product_id, limit) ==
    IF ~IsProductIdFormat(product_id) THEN ErrorResponse(400)
    ELSE IF product_id \notin ItemIds THEN ErrorResponse(404)
    ELSE LET n == ServerLimit(limit, HOME_DEFAULT_LIMIT, HOME_MAX_LIMIT)
         IN  [status |-> 200,
              body |-> [similar |-> Take(RankSimilar(snaps, product_id), n)]]

(* GET /recommendations/search; u is the user the request is served for, *)
(* NULL when it carries none                                             *)
SearchEndpoint(snaps, tables, now, u, query, limit) ==
    IF query = NoQuery \/ Trim(query) = <<>> THEN ErrorResponse(400)
    ELSE LET n == ServerLimit(limit, SEARCH_DEFAULT_LIMIT, SEARCH_MAX_LIMIT)
             r == RankSearch(snaps, tables, u, query, now)
         IN  [status |-> 200,
              body |-> [results |-> Take(r.results, n),
                        fallback_reason |-> r.fallback_reason]]

----------------------------------------------------------------------------
(* Client API module *)

(* a defect: the lower clamp is missing *)
ClampLimitNoFloor(responseLimit, default, max) ==
    LET given == IF responseLimit = Undefined THEN default ELSE responseLimit[1]
    IN  MathMin(given, max)

(* response_limit: Math.min(Math.max(responseLimit, 1), max), with the     *)
(* default parameter value when the caller passes none                     *)
ClampLimit(responseLimit, default, max) ==
    LET given == IF responseLimit = Undefined THEN default ELSE responseLimit[1]
    IN  MathMin(MathMax(given, MIN_LIMIT), max)

(* the call throws before any request is sent (status 0: no response) *)
Thrown(op, req, message) ==
    [op |-> op, req |-> req, outcome |-> "throw", error |-> message,
     sent |-> <<>>, status |-> 0, body |-> NULL]

Returned(op, req, sent, r) ==
    IF r.status = 200
    THEN [op |-> op, req |-> req, outcome |-> "return", error |-> NULL,
          sent |-> <<sent>>, status |-> 200, body |-> r.body]
    ELSE [op |-> op, req |-> req, outcome |-> "throw", error |-> "API Error",
          sent |-> <<sent>>, status |-> r.status, body |-> NULL]

(* getHomeRecommendations(userId, responseLimit = 20) *)
getHomeRecommendations(snaps, tables, now, userId, responseLimit, sample) ==
    LET req == [user_id |-> userId, limit |-> responseLimit] IN
    IF ~IsUserIdFormat(userId)
    THEN Thrown("getHomeRecommendations", req, "Invalid user_id format.")
    ELSE LET n == ClampLimit(responseLimit, HOME_DEFAULT_LIMIT, HOME_MAX_LIMIT)
         IN  Returned("getHomeRecommendations", req, n,
                      HomeEndpoint(snaps, tables, now, userId, <<n>>, sample))

(* a defect: the identifier is sent without the format check *)
getProductRecommendationsNoCheck(snaps, productId, responseLimit) ==
    LET req == [product_id |-> productId, limit |-> responseLimit]
        n == ClampLimit(responseLimit, HOME_DEFAULT_LIMIT, HOME_MAX_LIMIT)
    IN  Returned("getProductRecommendations", req, n,
                 ProductEndpoint(snaps, productId, <<n>>))

(* getProductRecommendations(productId, responseLimit = 20) *)
getProductRecommendations(snaps, productId, responseLimit) ==
    LET req == [product_id |-> productId, limit |-> responseLimit] IN
    IF ~IsProductIdFormat(productId)
    THEN Thrown("getProductRecommendations", req, "Invalid product_id format.")
    ELSE LET n == ClampLimit(responseLimit, HOME_DEFAULT_LIMIT, HOME_MAX_LIMIT)
         IN  Returned("getProductRecommendations", req, n,
                      ProductEndpoint(snaps, productId, <<n>>))

(* searchRecommendations(query, responseLimit = 2000) *)
searchRecommendations(snaps, tables, now, query, responseLimit) ==
    LET req == [query |-> query, limit |-> responseLimit, user |-> NULL] IN
    IF Len(Trim(query)) = 0
    THEN Thrown("searchRecommendations", req, "Search query cannot be empty.")
    ELSE LET n == ClampLimit(responseLimit, SEARCH_DEFAULT_LIMIT, SEARCH_MAX_LIMIT)
         IN  Returned("searchRecommendations", req, n,
                      SearchEndpoint(snaps, tables, now, NULL, Trim(query), <<n>>))

(* trackInteraction(interactionData): checks event_type, then posts *)
trackInteraction(body) ==
    IF body.event_type \notin EventTypes
    THEN Thrown("trackInteraction", body, "Invalid event_type.")
    ELSE Returned("trackInteraction", body, body,
                  [status |-> ValidateInteraction(body), body |-> NULL])

(* logInteraction(data): posts, and swallows every failure *)
logInteraction(body) ==
    [op |-> "logInteraction", req |-> body, outcome |-> "return", error |-> NULL,
     sent |-> <<body>>, status |-> ValidateInteraction(body), body |-> NULL]

(* the tables after the service has handled POST /interactions *)
Posted(tables, body, now) ==
    IF ValidateInteraction(body) = 200
    THEN InsertRow(tables, body.user_id, Row(body, now))
    ELSE tables

----------------------------------------------------------------------------
(* Pages *)

ClickBody(user, productId) ==
    [user_id |-> user, event_type |-> "product_click",
     product_id |-> productId, query |-> NoQuery]

SearchBody(user, query) ==
    [user_id |-> user, event_type |-> "search_query",
     product_id |-> NULL, query |-> query]

View(op, req, status, body) ==
    [op |-> op, req |-> req, outcome |-> "view", error |-> NULL,
     sent |-> <<>>, status |-> status, body |-> body]

(* a defect: the similar list is shown as the service returned it *)
ProductPageNoFilter(snaps, id, cached, user) ==
    LET productId == ToUpperCase(id)
        req == [id |-> id, cached |-> cached, user |-> user]
        r == ProductEndpoint(snaps, productId, <<PAGE_RESPONSE_LIMIT>>)
    IN  IF r.status # 200
        THEN View("ProductPage", req, r.status, [view |-> "error"])
        ELSE View("ProductPage", req, 200,
                  [view |-> "product", product |-> productId,
                   similar |-> r.body.similar, shown |-> r.body.similar])

(* ProductPage: what it renders for route /product/:id; cached tells       *)
(* whether the navigation carried the product (state.product)              *)
ProductPage(snaps, id, cached, user) ==
    LET productId == ToUpperCase(id)
        req == [id |-> id, cached |-> cached, user |-> user]
        r == ProductEndpoint(snaps, productId, <<PAGE_RESPONSE_LIMIT>>)
    IN  IF r.status # 200
        THEN View("ProductPage", req, r.status, [view |-> "error"])
        ELSE LET similar == r.body.similar
                 found == cached \/ \E k \in 1..Len(similar) :
                                        ToUpperCase(similar[k]) = productId
             IN  IF ~found
                 THEN View("ProductPage", req, 200,
                           [view |-> "not_found", similar |-> similar])
                 ELSE View("ProductPage", req, 200,
                           [view |-> "product", product |-> productId,
                            similar |-> similar,
                            shown |-> SelectSeq(similar,
                                LAMBDA p : ToUpperCase(p) # productId)])

(* the interaction ProductPage logs once its query has succeeded *)
ProductPageLogs(snaps, id) ==
    ProductEndpoint(snaps, ToUpperCase(id), <<PAGE_RESPONSE_LIMIT>>).status = 200

(* SearchPage: what it renders for /search?q=query *)
SearchPage(snaps, tables, now, query, user) ==
    LET req == [query |-> query, user |-> user] IN
    IF Trim(query) = <<>>
    THEN View("SearchPage", req, 0, [view |-> "disabled"])
    ELSE LET r == SearchEndpoint(snaps, tables, now, NULL, query,
                                 <<SEARCH_PAGE_LIMIT>>)
         IN  IF r.status # 200
             THEN View("SearchPage", req, r.status, [view |-> "error"])
             ELSE View("SearchPage", req, 200,
                       [view |-> IF Len(r.body.results) > 0
                                 THEN "results" ELSE "no_products",
                        notice |-> r.body.fallback_reason # NULL,
                        results |-> r.body.results,
                        fallback_reason |-> r.body.fallback_reason])

(* the query is enabled and succeeds, so onSuccess logs the search *)
SearchPageLogs(snaps, tables, now, query) ==
    /\ Trim(query) # <<>>
    /\ SearchEndpoint(snaps, tables, now, NULL, query, <<SEARCH_PAGE_LIMIT>>).status = 200

----------------------------------------------------------------------------
(* Inputs *)

LimitInputs == {Undefined, <<0>>, <<2>>, <<61>>}

SearchLimitInputs == {Undefined, <<0>>, <<2>>, <<6001>>}

ProductIdInputs ==
    {"B08CF3D7QR", "RS00000001", "ZZZZZZZZZ9", "UNKNOWNID01", "b08cf3d7qr"}

UserIdInputs == Users \cup {"user 123"}

QueryInputs == {<<Blank, "Earbuds", Blank>>, <<"zzz">>, <<Blank>>}

PageUsers == {"U12345", NULL}

PageIds == {"b08cf3d7qr", "AF321D06AE", "ZZZZZZZZZ9"}

PageQueries == {<<Blank, "Earbuds", Blank>>, <<Blank>>}

(* the bodies callers record: "U12345" is the user who builds a history,   *)
(* "user123" stays a user the store has never seen                         *)
InteractionBodies ==
    [user_id : {"U12345"}, event_type : {"product_click"},
     product_id : {NULL, "B08CF3D7QR", "AF321D06AE", "b08cf3d7qr"}, query : {NoQuery}]
    \cup
    [user_id : {"U12345"}, event_type : {"search_query"},
     product_id : {NULL}, query : {NoQuery, <<Blank>>, <<Blank, "Earbuds", Blank>>}]
    \cup
    [user_id : {"user 123"}, event_type : {"page_view", "product_click"},
     product_id : {"B08CF3D7QR"}, query : {NoQuery}]

----------------------------------------------------------------------------
(* Account service (routes/auth.js over the User and TemporaryRegistration *)
(* collections).  Times are in seconds.                                    *)

OTP_EXPIRY_MINUTES == 1     \* process.env.OTP_EXPIRY_MINUTES of the deployment
OTP_LENGTH == 6
PASSWORD_MIN_LENGTH == 8
MAX_OTP_ATTEMPTS == 3
NAME_MIN_LENGTH == 2
RATE_LIMIT_SECONDS == 60
TTL_SECONDS == 3600

AuthChars(s) ==
    CASE s = "ann@x.io"  -> <<"a","n","n","@","x",".","i","o">>
      [] s = "bob@x.io"  -> <<"b","o","b","@","x",".","i","o">>
      [] s = "ann.x.io"  -> <<"a","n","n",".","x",".","i","o">>
      [] s = "Ann"       -> <<"A","n","n">>
      [] s = "A"         -> <<"A">>
      [] s = "Passw0rd"  -> <<"P","a","s","s","w","0","r","d">>
      [] s = "N3wSecret" -> <<"N","3","w","S","e","c","r","e","t">>
      [] s = "password"  -> <<"p","a","s","s","w","o","r","d">>
      [] s = "Ab1"       -> <<"A","b","1">>
      [] s = "111111"    -> <<"1","1","1","1","1","1">>
      [] s = "222222"    -> <<"2","2","2","2","2","2">>
      [] s = "12"        -> <<"1","2">>
      [] s = ""          -> <<>>
      [] OTHER           -> <<>>

(* isEmail(): a local part, "@", and a domain with a dot inside it *)
IsEmail(s) ==
    LET c == AuthChars(s) IN
    \E i \in 2..Len(c) :
        /\ c[i] = "@"
        /\ \A j \in 1..Len(c) : c[j] = "@" => j = i
        /\ \E j \in (i + 2)..(Len(c) - 1) : c[j] = "."

(* validations.registration *)
ValidRegistration(body) ==
    /\ Len(AuthChars(body.name)) >= NAME_MIN_LENGTH
    /\ IsEmail(body.email)

(* validations.password: length, /^(?=.*[a-z])(?=.*[A-Z])(?=.*\d)/ and the *)
(* confirmation                                                            *)
ValidPassword(body) ==
    LET c == AuthChars(body.password) IN
    /\ Len(c) >= PASSWORD_MIN_LENGTH
    /\ \E i \in 1..Len(c) : c[i] \in Lower
    /\ \E i \in 1..Len(c) : c[i] \in Upper
    /\ \E i \in 1..Len(c) : c[i] \in Digit
    /\ body.confirmPassword = body.password

(* validations.otp *)
ValidOtp(body) ==
    LET c == AuthChars(body.otp) IN
    /\ Len(c) = OTP_LENGTH
    /\ \A i \in 1..Len(c) : c[i] \in Upper \cup Lower \cup Digit

(* helpers.generateOTP draws six random digits: any of these codes *)
OtpCodes == {"111111", "222222"}

(* helpers.hashData: HMAC-SHA256 under OTP_SECRET *)
hashData(data) == <<"hmac", data>>

(* the pre-save hook of the User schema: bcrypt.hash of a modified password *)
BcryptHash(password) == <<"bcrypt", password>>

(* bcrypt.compare(candidate, hash) *)
BcryptCompare(candidate, hash) == hash = <<"bcrypt", candidate>>

(* helpers.generateToken: the claims the token is signed over *)
generateToken(user) == <<"jwt", user.email, user.tokenVersion>>

(* Model.findOne({ email }): the matching documents, none or one *)
FindByEmail(coll, email) == {d \in coll : d.email = email}

(* the reply of a handler: status and JSON body *)
Reply(status, body) == [status |-> status, body |-> body]

ValidationErrors == Reply(400, [errors |-> "validation"])

(* helpers.handleError for an error without statusCode *)
handleError(message) == Reply(500, [error |-> message])

----------------------------------------------------------------------------
(* POST /register/init.  The result holds the reply, the collection after  *)
(* the handler and the e-mail it sent.                                     *)

(* findOneAndUpdate({ email }, { name, email, otp, otpExpiry,             *)
(* $setOnInsert: { createdAt } }, { upsert: true }): an existing document *)
(* keeps its otpAttempts and its createdAt                                *)
Upsert(T, body, otp, now) ==
    LET old == FindByEmail(T, body.email)
        expiry == now + OTP_EXPIRY_MINUTES * 60
    IN  IF old = {}
        THEN T \cup {[email |-> body.email, name |-> body.name,
                      otp |-> hashData(otp), otpExpiry |-> expiry,
                      otpAttempts |-> 0, createdAt |-> now]}
        ELSE (T \ old) \cup
                {[t EXCEPT !.name = body.name, !.otp = hashData(otp),
                           !.otpExpiry = expiry] : t \in old}

RegisterInit(U, T, body, otp, now) ==
    IF ~ValidRegistration(body)
    THEN [reply |-> ValidationErrors, tempRegs |-> T, mail |-> <<>>]
    ELSE IF FindByEmail(U, body.email) # {}
    THEN [reply |-> Reply(409, [error |-> "Email already registered"]),
          tempRegs |-> T, mail |-> <<>>]
    ELSE IF \E t \in FindByEmail(T, body.email) :
                t.createdAt > now - RATE_LIMIT_SECONDS
    THEN [reply |-> Reply(429, [error |-> "Please wait before requesting new OTP"]),
          tempRegs |-> T, mail |-> <<>>]
    ELSE [reply |-> Reply(200, [message |-> "OTP sent successfully"]),
          tempRegs |-> Upsert(T, body, otp, now),
          mail |-> <<[to |-> body.email, otp |-> otp]>>]

----------------------------------------------------------------------------
(* POST /register/verify, in the three database calls it awaits            *)

(* a defect: the OTP is compared whatever the attempt counter says *)
RegisterVerifyStartNoLimit(T, body, now) ==
    IF ~(ValidPassword(body) /\ ValidOtp(body))
    THEN [done |-> TRUE, reply |-> ValidationErrors, tempRegs |-> T,
          compared |-> FALSE]
    ELSE IF FindByEmail(T, body.email) = {}
    THEN [done |-> TRUE,
          reply |-> Reply(400, [error |-> "Invalid verification request"]),
          tempRegs |-> T, compared |-> FALSE]
    ELSE LET old == CHOOSE t \in T : t.email = body.email
             tempReg == [old EXCEPT !.otpAttempts = @ + 1]
             T1 == (T \ {old}) \cup {tempReg}
         IN  IF hashData(body.otp) # tempReg.otp \/ now > tempReg.otpExpiry
             THEN [done |-> TRUE,
                   reply |-> Reply(401, [error |-> "Invalid or expired OTP"]),
                   tempRegs |-> T1, compared |-> TRUE]
             ELSE [done |-> FALSE, doc |-> tempReg, tempRegs |-> T1,
                   compared |-> TRUE]

(* validation, findOneAndUpdate({ email }, { $inc: { otpAttempts: 1 } },   *)
(* { new: true }) and the checks on the document it returns                *)
RegisterVerifyStart(T, body, now) ==
    IF ~(ValidPassword(body) /\ ValidOtp(body))
    THEN [done |-> TRUE, reply |-> ValidationErrors, tempRegs |-> T,
          compared |-> FALSE]
    ELSE IF FindByEmail(T, body.email) = {}
    THEN [done |-> TRUE,
          reply |-> Reply(400, [error |-> "Invalid verification request"]),
          tempRegs |-> T, compared |-> FALSE]
    ELSE LET old == CHOOSE t \in T : t.email = body.email
             tempReg == [old EXCEPT !.otpAttempts = @ + 1]
             T1 == (T \ {old}) \cup {tempReg}
         IN  IF tempReg.otpAttempts > MAX_OTP_ATTEMPTS
             THEN [done |-> TRUE,
                   reply |-> Reply(429, [error |-> "Too many attempts. Request new OTP"]),
                   tempRegs |-> T1, compared |-> FALSE]
             ELSE IF hashData(body.otp) # tempReg.otp \/ now > tempReg.otpExpiry
             THEN [done |-> TRUE,
                   reply |-> Reply(401, [error |-> "Invalid or expired OTP"]),
                   tempRegs |-> T1, compared |-> TRUE]
             ELSE [done |-> FALSE, doc |-> tempReg, tempRegs |-> T1,
                   compared |-> TRUE]

(* new User({ name, email, password }).save(): the pre-save hook hashes    *)
(* the password; the unique index on email rejects a second document       *)
RegisterVerifySave(U, tempReg, body) ==
    IF FindByEmail(U, tempReg.email) # {}
    THEN [done |-> TRUE, users |-> U,
          reply |-> handleError("Registration verification failed")]
    ELSE LET user == [email |-> tempReg.email, name |-> tempReg.name,
                      password |-> BcryptHash(body.password), tokenVersion |-> 0,
                      resetOtp |-> Undefined, resetOtpExpiry |-> Undefined,
                      resetOtpAttempts |-> Undefined]
         IN  [done |-> FALSE, users |-> U \cup {user},
              reply |-> Reply(201, [email |-> user.email, name |-> user.name,
                                    token |-> generateToken(user)])]

(* TemporaryRegistration.deleteOne({ email }) *)
RegisterVerifyDelete(T, body) == T \ FindByEmail(T, body.email)

(* the handler run without interruption *)
RegisterVerify(U, T, body, now) ==
    LET a == RegisterVerifyStart(T, body, now) IN
    IF a.done
    THEN [reply |-> a.reply, users |-> U, tempRegs |-> a.tempRegs,
          compared |-> a.compared]
    ELSE LET b == RegisterVerifySave(U, a.doc, body) IN
         IF b.done
         THEN [reply |-> b.reply, users |-> U, tempRegs |-> a.tempRegs,
               compared |-> TRUE]
         ELSE [reply |-> b.reply, users |-> b.users,
               tempRegs |-> RegisterVerifyDelete(a.tempRegs, body),
               compared |-> TRUE]

----------------------------------------------------------------------------
(* POST /login *)

(* a defect: an unknown e-mail is answered differently from a wrong password *)
LoginTellsUnknown(U, body) ==
    IF ~IsEmail(body.email) \/ AuthChars(body.password) = <<>>
    THEN ValidationErrors
    ELSE IF FindByEmail(U, body.email) = {}
    THEN Reply(404, [error |-> "User not found"])
    ELSE LET user == CHOOSE u \in U : u.email = body.email IN
         IF ~BcryptCompare(body.password, user.password)
         THEN Reply(401, [error |-> "Invalid credentials"])
         ELSE Reply(200, [email |-> user.email, name |-> user.name,
                          token |-> generateToken(user)])

(* the route with the validators: findOne, bcrypt.compare, one 401 for both *)
Login(U, body) ==
    IF ~IsEmail(body.email) \/ AuthChars(body.password) = <<>>
    THEN ValidationErrors
    ELSE IF \/ FindByEmail(U, body.email) = {}
            \/ \E u \in FindByEmail(U, body.email) :
                  ~BcryptCompare(body.password, u.password)
    THEN Reply(401, [error |-> "Invalid credentials"])
    ELSE LET user == CHOOSE u \in U : u.email = body.email IN
         Reply(200, [email |-> user.email, name |-> user.name,
                     token |-> generateToken(user)])

(* the first /login route of the file: no validators, two separate 401s *)
LegacyLogin(U, body) ==
    IF FindByEmail(U, body.email) = {}
    THEN Reply(401, [error |-> "Invalid credentials"])
    ELSE LET user == CHOOSE u \in U : u.email = body.email IN
         IF ~BcryptCompare(body.password, user.password)
         THEN Reply(401, [error |-> "Invalid credentials"])
         ELSE Reply(200, [userId |-> user.email, token |-> <<"jwt", user.email>>])

----------------------------------------------------------------------------
(* POST /password-reset/init *)

(* 'Generic response regardless of user existence' *)
GenericResponse ==
    Reply(200, [message |-> "If the email exists, an OTP will be sent",
                expiresIn |-> OTP_EXPIRY_MINUTES * 60])

PasswordResetInit(U, body, otp, now) ==
    IF ~IsEmail(body.email)
    THEN [reply |-> ValidationErrors, users |-> U, mail |-> <<>>]
    ELSE IF FindByEmail(U, body.email) = {}
    THEN [reply |-> GenericResponse, users |-> U, mail |-> <<>>]
    ELSE LET user == CHOOSE u \in U : u.email = body.email IN
         IF /\ user.resetOtpExpiry # Undefined
            /\ now < user.resetOtpExpiry[1] + RATE_LIMIT_SECONDS
         THEN [reply |-> Reply(429, [error |-> "Please wait before requesting another OTP",
                                     retryAfter |-> RATE_LIMIT_SECONDS]),
               users |-> U, mail |-> <<>>]
         ELSE [reply |-> GenericResponse,
               users |-> (U \ {user}) \cup
                   {[user EXCEPT !.resetOtp = <<hashData(otp)>>,
                                 !.resetOtpExpiry = <<now + OTP_EXPIRY_MINUTES * 60>>,
                                 !.resetOtpAttempts = <<0>>]},
               mail |-> <<[to |-> body.email, otp |-> otp]>>]

----------------------------------------------------------------------------
(* POST /password-reset/verify, in the two database calls it awaits        *)

(* validation, User.findOne({ email }) and the checks on the document it   *)
(* returns; write tells what the handler goes on to save                   *)
PasswordResetVerifyStart(U, body, now) ==
    IF ~(ValidPassword(body) /\ ValidOtp(body))
    THEN [done |-> TRUE, reply |-> ValidationErrors, compared |-> FALSE]
    ELSE IF FindByEmail(U, body.email) = {}
    THEN [done |-> TRUE, reply |-> Reply(400, [error |-> "Invalid reset request"]),
          compared |-> FALSE]
    ELSE LET user == CHOOSE u \in U : u.email = body.email IN
         IF /\ user.resetOtpAttempts # Undefined
            /\ user.resetOtpAttempts[1] >= MAX_OTP_ATTEMPTS
         THEN [done |-> TRUE, compared |-> FALSE,
               reply |-> Reply(429, [error |-> "Too many failed attempts. Please request a new OTP"])]
         ELSE IF \/ <<hashData(body.otp)>> # user.resetOtp
                 \/ now > user.resetOtpExpiry[1]
         THEN [done |-> FALSE, doc |-> user, write |-> "attempt", compared |-> TRUE]
         ELSE [done |-> FALSE, doc |-> user, write |-> "password", compared |-> TRUE]

(* user.save() of the document read at the start: the modified paths are  *)
(* written over whatever the collection holds by then.  A document        *)
(* without resetOtpAttempts gets undefined + 1 = NaN, which the Number     *)
(* path rejects, so nothing is saved and the handler answers 500.         *)
PasswordResetVerifySave(U, doc, write, body) ==
    LET stored == FindByEmail(U, doc.email) IN
    IF write = "attempt"
    THEN IF doc.resetOtpAttempts = Undefined
         THEN [reply |-> handleError("Failed to reset password"), users |-> U]
         ELSE [reply |-> Reply(401, [error |-> "Invalid or expired OTP"]),
               users |-> (U \ stored) \cup
                   {[u EXCEPT !.resetOtpAttempts = <<doc.resetOtpAttempts[1] + 1>>]
                      : u \in stored}]
    ELSE [reply |-> Reply(200, [message |-> "Password reset successfully"]),
          users |-> (U \ stored) \cup
              {[u EXCEPT !.password = BcryptHash(body.password),
                         !.resetOtp = Undefined,
                         !.resetOtpExpiry = Undefined,
                         !.resetOtpAttempts = Undefined,
                         !.tokenVersion = doc.tokenVersion + 1] : u \in stored}]

(* the handler run without interruption *)
PasswordResetVerify(U, body, now) ==
    LET a == PasswordResetVerifyStart(U, body, now) IN
    IF a.done THEN [reply |-> a.reply, users |-> U, compared |-> FALSE]
    ELSE LET b == PasswordResetVerifySave(U, a.doc, a.write, body) IN
         [reply |-> b.reply, users |-> b.users, compared |-> TRUE]

----------------------------------------------------------------------------
(* What the model keeps about the requests to the account service *)

Purposes == {"registration", "reset"}

NoReply == [route |-> "none", status |-> 0]

(* what the service answered to the request *)
Answered(route, body, reply) ==
    [route |-> route, req |-> body, status |-> reply.status, body |-> reply.body]

(* the e-mail with the latest OTP of each purpose replaces the older one *)
Deliver(box, purpose, mail, now) ==
    IF mail = <<>> THEN box
    ELSE {m \in box : m.purpose # purpose \/ m.to # mail[1].to}
            \cup {[to |-> mail[1].to, purpose |-> purpose, otp |-> mail[1].otp,
                   at |-> now]}

(* kept per purpose: the number of OTPs issued, the number of the OTP on   *)
(* which a verification was last refused with 429, and per issued OTP the  *)
(* wrong guesses that were compared with it and its successful uses        *)
NoTally ==
    [p \in Purposes |->
        [issued |-> 0, refused |-> 0,
         wrong |-> [s \in 1..MaxOtps |-> 0],
         used |-> [s \in 1..MaxOtps |-> 0]]]

Issued(t, p, mail) ==
    IF mail = <<>> THEN t ELSE [t EXCEPT ![p].issued = @ + 1]

Refused(t, p, status) ==
    IF status = 429 THEN [t EXCEPT ![p].refused = t[p].issued] ELSE t

Counted(t, p, s, isWrong, isUsed) ==
    [t EXCEPT ![p].wrong[s] = @ + (IF isWrong THEN 1 ELSE 0),
              ![p].used[s] = @ + (IF isUsed THEN 1 ELSE 0)]


----------------------------------------------------------------------------
(* Browser: the React application and what it keeps *)

(* localStorage of a browser nobody has logged in from *)
EmptyStorage == [userId |-> NULL, token |-> Undefined]

(* `${value}`: the text of the value; null becomes the word null *)
TemplateLiteral(v) == IF v = NULL THEN "null (text)" ELSE v

(* ProtectedRoute: renders its children only with a token and a userId *)
ProtectedRoute(storage) == ~(storage.token = Undefined \/ storage.userId = NULL)

(* user._id of the account, as the login response carries it *)
ObjectId(email) == IF email = "ann@x.io" THEN "U12345" ELSE "user123"

(* no route rendered yet *)
NoPage ==
    [path |-> "about:blank", id |-> NULL, q |-> NoQuery, cached |-> FALSE,
     query |-> "idle", cards |-> {}]

NoGesture == [kind |-> "none", product |-> NULL]

(* the requests the browser sends *)
HomeRequest(userId) ==
    [kind |-> "home", user_id |-> TemplateLiteral(userId), event_type |-> NULL,
     product_id |-> NULL, query |-> NoQuery]

ProductRequest(productId) ==
    [kind |-> "product", user_id |-> NULL, event_type |-> NULL,
     product_id |-> productId, query |-> NoQuery]

SearchRequest(query) ==
    [kind |-> "search", user_id |-> NULL, event_type |-> NULL,
     product_id |-> NULL, query |-> query]

InteractionRequest(body) ==
    [kind |-> "interaction", user_id |-> body.user_id, event_type |-> body.event_type,
     product_id |-> body.product_id, query |-> body.query]

(* a defect: the query of SearchPage runs for every query string *)
enabledAlways(query) == TRUE

(* SearchPage: enabled: !!query.trim() *)
enabled(query) == Trim(query) # <<>>

(* Navbar.handleSearch: the query it navigates to, if it navigates *)
handleSearch(query) == IF Trim(query) # <<>> THEN <<Trim(query)>> ELSE <<>>

(* ProductCard.handleInteraction *)
handleInteraction(userId, product) == ClickBody(userId, product)

(* App: the element of the route renders and its query starts.  HomePage,  *)
(* ProductPage and SearchPage are rendered for every visitor.              *)
Mount(path, id, q, cached, storage) ==
    LET p == [path |-> path, id |-> id, q |-> q, cached |-> cached,
              query |-> "loading", cards |-> {}]
    IN  CASE path = "/" ->
                [page |-> p, sent |-> <<HomeRequest(storage.userId)>>]
          [] path = "/product" ->
                [page |-> p, sent |-> <<ProductRequest(ToUpperCase(id))>>]
          [] path = "/search" ->
                IF enabled(q)
                THEN [page |-> p, sent |-> <<SearchRequest(q)>>]
                ELSE [page |-> [p EXCEPT !.query = "disabled"], sent |-> <<>>]
          [] OTHER -> [page |-> [p EXCEPT !.query = "idle"], sent |-> <<>>]

(* the products HomePage shows cards for *)
HomeCards(body) ==
    SeqToSet(body.personalized) \cup SeqToSet(body.trending)
        \cup SeqToSet(body.best_value) \cup SeqToSet(body.diverse_picks)
        \cup UNION {SeqToSet(body.top_categories[c]) : c \in Categories}

----------------------------------------------------------------------------
(* State *)

Idle == [op |-> "none"]

(* no rebuild of the kind is running; last tells how the previous one ended *)
NoBuild == [active |-> FALSE, last |-> "none"]

Init ==
    /\ clock = 0
    /\ store = EmptyTables
    /\ pending = {}
    /\ completed = [u \in Users |-> <<>>]
    /\ nextCall = 1
    /\ published = [k \in Kinds |-> InitialSnapshot(k)]
    /\ staging = [k \in Kinds |-> NoBuild]
    /\ builds = 0
    /\ readers = {}
    /\ resp = [op |-> "none"]
    /\ baseline = [i \in ItemIds |-> [num |-> 0, exp |-> 0]]
    /\ time = 0
    /\ users = {}
    /\ tempRegs = {}
    /\ mailbox = {}
    /\ requests = {}
    /\ replies = NoReply
    /\ tally = NoTally
    /\ localStorage = EmptyStorage
    /\ page = NoPage
    /\ outbox = <<>>
    /\ gesture = NoGesture

WouldInsert(body) == ValidateInteraction(body) = 200

(* the caller takes the outcome of its call; the next call can start *)
Consume ==
    /\ resp.op # "none"
    /\ resp' = Idle
    /\ UNCHANGED <<clock, store, pending, completed, nextCall, published,
                   staging, builds, readers>>
    /\ UNCHANGED <<baseline, authVars, uiVars>>

(* a caller records an interaction through trackInteraction *)
TrackInteraction(body) ==
    /\ resp.op = "none"
    /\ body.event_type \in EventTypes /\ WouldInsert(body) => TotalRows(store) < MaxEvents
    /\ resp' = trackInteraction(body)
    /\ store' = IF body.event_type \in EventTypes THEN Posted(store, body, clock)
                ELSE store
    /\ UNCHANGED <<clock, pending, completed, nextCall, published, staging,
                   builds, readers>>
    /\ UNCHANGED <<baseline, authVars, uiVars>>

(* days pass: to the edge of the retention window, or just beyond it *)
AdvanceTime(d) ==
    /\ resp.op = "none"
    /\ clock + d <= MaxClock
    /\ clock' = clock + d
    /\ UNCHANGED <<store, pending, completed, nextCall, published, staging,
                   builds, readers, resp>>
    /\ UNCHANGED <<baseline, authVars, uiVars>>

(* a rebuild of kind k that runs to completion and publishes its snapshot *)
Rebuild(k) ==
    /\ resp.op = "none"
    /\ published[k].meta.exp < MaxTicks
    /\ published' = [published EXCEPT
                        ![k] = BuildOf(k, ItemIds, published[k], store, clock)]
    /\ UNCHANGED <<clock, store, pending, completed, nextCall, staging,
                   builds, readers, resp>>
    /\ UNCHANGED <<baseline, authVars, uiVars>>

GetHomeRecommendations(userId, limit) ==
    /\ resp.op = "none"
    /\ \E sample \in HomeSamples(store, userId, clock) :
          resp' = getHomeRecommendations(published, store, clock, userId, limit, sample)
    /\ UNCHANGED <<clock, store, pending, completed, nextCall, published,
                   staging, builds, readers>>
    /\ UNCHANGED <<baseline, authVars, uiVars>>

GetProductRecommendations(productId, limit) ==
    /\ resp.op = "none"
    /\ resp' = getProductRecommendations(published, productId, limit)
    /\ UNCHANGED <<clock, store, pending, completed, nextCall, published,
                   staging, builds, readers>>
    /\ UNCHANGED <<baseline, authVars, uiVars>>

SearchRecommendations(query, limit) ==
    /\ resp.op = "none"
    /\ resp' = searchRecommendations(published, store, clock, query, limit)
    /\ UNCHANGED <<clock, store, pending, completed, nextCall, published,
                   staging, builds, readers>>
    /\ UNCHANGED <<baseline, authVars, uiVars>>

(* the search endpoint serving a request for a known user *)
SearchForUser(u, query, limit) ==
    /\ resp.op = "none"
    /\ resp' = Returned("search", [query |-> query, limit |-> limit, user |-> u],
                        ServerLimit(limit, SEARCH_DEFAULT_LIMIT, SEARCH_MAX_LIMIT),
                        SearchEndpoint(published, store, clock, u, query, limit))
    /\ UNCHANGED <<clock, store, pending, completed, nextCall, published,
                   staging, builds, readers>>
    /\ UNCHANGED <<baseline, authVars, uiVars>>

(* the user opens /product/:id *)
ProductPageLoad(id, cached, user) ==
    /\ resp.op = "none"
    /\ LET body == ClickBody(user, ToUpperCase(id))
           logs == ProductPageLogs(published, id)
       IN  /\ logs /\ WouldInsert(body) => TotalRows(store) < MaxEvents
           /\ store' = IF logs THEN Posted(store, body, clock) ELSE store
    /\ resp' = ProductPage(published, id, cached, user)
    /\ UNCHANGED <<clock, pending, completed, nextCall, published, staging,
                   builds, readers>>
    /\ UNCHANGED <<baseline, authVars, uiVars>>

(* the user opens /search?q=query *)
SearchPageLoad(query, user) ==
    /\ resp.op = "none"
    /\ LET body == SearchBody(user, query)
           logs == SearchPageLogs(published, store, clock, query)
       IN  /\ logs /\ WouldInsert(body) => TotalRows(store) < MaxEvents
           /\ store' = IF logs THEN Posted(store, body, clock) ELSE store
    /\ resp' = SearchPage(published, store, clock, query, user)
    /\ UNCHANGED <<clock, pending, completed, nextCall, published, staging,
                   builds, readers>>
    /\ UNCHANGED <<baseline, authVars, uiVars>>

Next ==
    \/ Consume
    \/ \E body \in InteractionBodies : TrackInteraction(body)
    \/ \E d \in {RETENTION_DAYS, RETENTION_DAYS + 1} : AdvanceTime(d)
    \/ \E k \in {"popularity", "rules"} : Rebuild(k)
    \/ \E u \in UserIdInputs, l \in LimitInputs : GetHomeRecommendations(u, l)
    \/ \E p \in ProductIdInputs, l \in LimitInputs : GetProductRecommendations(p, l)
    \/ \E q \in QueryInputs, l \in SearchLimitInputs : SearchRecommendations(q, l)
    \/ \E id \in PageIds, cached \in BOOLEAN, u \in PageUsers :
          ProductPageLoad(id, cached, u)
    \/ \E q \in PageQueries, u \in PageUsers : SearchPageLoad(q, u)
    \/ \E q \in {<<"zzz">>, <<"earbuds">>}, l \in {Undefined, <<2>>} :
          SearchForUser("U12345", q, l)

Spec == Init /\ [][Next]_vars

----------------------------------------------------------------------------
(* Concurrent record calls.  The service answers POST /interactions with    *)
(* non-blocking database calls: a call validates the body, starts its      *)
(* INSERT, whose timestamp column takes NOW() at that moment, and completes *)
(* when the row is committed.  Calls in flight complete in any order.      *)

StoreBodies ==
    {ClickBody("U12345", "B08CF3D7QR"), SearchBody("U12345", <<"earbuds">>),
     ClickBody("user123", "AF321D06AE"), ClickBody("U12345", NULL)}

(* a call arrives: a rejected body completes at once, an accepted one      *)
(* starts its INSERT                                                       *)
RecordBegin(body) ==
    /\ nextCall <= MaxCalls
    /\ nextCall' = nextCall + 1
    /\ pending' = IF ValidateInteraction(body) = 200
                  THEN pending \cup {[call |-> nextCall, user |-> body.user_id,
                                      row |-> Row(body, clock)]}
                  ELSE pending
    /\ UNCHANGED <<clock, store, completed, published, staging, builds,
                   readers, resp>>
    /\ UNCHANGED <<baseline, authVars, uiVars>>

(* the INSERT of a call in flight commits and the call returns *)
RecordCommit(id) ==
    /\ \E c \in pending :
          /\ c.call = id
          /\ pending' = pending \ {c}
          /\ store' = InsertRow(store, c.user, c.row)
          /\ completed' = [completed EXCEPT ![c.user] = Append(@, c.row)]
    /\ UNCHANGED <<clock, nextCall, published, staging, builds, readers, resp>>
    /\ UNCHANGED <<baseline, authVars, uiVars>>

(* the database clock moves on *)
Tick ==
    /\ clock < MaxCalls
    /\ clock' = clock + 1
    /\ UNCHANGED <<store, pending, completed, nextCall, published, staging,
                   builds, readers, resp>>
    /\ UNCHANGED <<baseline, authVars, uiVars>>

NextStore ==
    \/ \E body \in StoreBodies : RecordBegin(body)
    \/ \E id \in 1..MaxCalls : RecordCommit(id)
    \/ Tick

SpecStore == Init /\ [][NextStore]_vars

----------------------------------------------------------------------------
(* Rebuilds and the requests served meanwhile.  A rebuild reads its input  *)
(* when it starts, builds the entries of the catalog items one by one into *)
(* a snapshot of its own, and installs the snapshot when the last entry is *)
(* built; a rebuild that fails discards what it built.  A request captures *)
(* the published snapshots when it starts and reads only those.            *)

(* the snapshot under construction holds the entries of the first n items *)
BuiltPrefix(n) == {CatalogOrder[i] : i \in 1..n}

(* a click arrives between rebuilds *)
StoreEvent ==
    /\ TotalRows(store) < MaxEvents
    /\ store' = Posted(store, ClickBody("U12345", "B08CF3D7QR"), clock)
    /\ UNCHANGED <<clock, pending, completed, nextCall, published, staging,
                   builds, readers, resp>>
    /\ UNCHANGED <<baseline, authVars, uiVars>>

RebuildBegin(k) ==
    /\ builds < MaxBuilds
    /\ ~staging[k].active
    /\ builds' = builds + 1
    /\ staging' = [staging EXCEPT ![k] =
                      [active |-> TRUE, last |-> @.last, done |-> 0,
                       prev |-> published[k], input |-> store, now |-> clock,
                       snap |-> BuildOf(k, {}, published[k], store, clock)]]
    /\ UNCHANGED <<clock, store, pending, completed, nextCall, published,
                   readers, resp>>
    /\ UNCHANGED <<baseline, authVars, uiVars>>

(* the entry of the next catalog item is built *)
RebuildStep(k) ==
    /\ staging[k].active
    /\ staging[k].done < Len(CatalogOrder)
    /\ LET b == staging[k] IN
       staging' = [staging EXCEPT ![k] =
                     [b EXCEPT !.done = @ + 1,
                               !.snap = BuildOf(k, BuiltPrefix(b.done + 1),
                                                b.prev, b.input, b.now)]]
    /\ UNCHANGED <<clock, store, pending, completed, nextCall, published,
                   builds, readers, resp>>
    /\ UNCHANGED <<baseline, authVars, uiVars>>

(* the build is complete: its snapshot replaces the published one *)
RebuildComplete(k) ==
    /\ staging[k].active
    /\ staging[k].done = Len(CatalogOrder)
    /\ published' = [published EXCEPT ![k] = staging[k].snap]
    /\ staging' = [staging EXCEPT ![k] = [active |-> FALSE, last |-> "published"]]
    /\ UNCHANGED <<clock, store, pending, completed, nextCall, builds,
                   readers, resp>>
    /\ UNCHANGED <<baseline, authVars, uiVars>>

(* a defect: a failed build leaves what it built as the published snapshot *)
RebuildFailInstalls(k) ==
    /\ staging[k].active
    /\ published' = [published EXCEPT ![k] = staging[k].snap]
    /\ staging' = [staging EXCEPT ![k] = [active |-> FALSE, last |-> "failed"]]
    /\ UNCHANGED <<clock, store, pending, completed, nextCall, builds,
                   readers, resp>>
    /\ UNCHANGED <<baseline, authVars, uiVars>>

(* the build fails at any point: what it built is discarded *)
RebuildFail(k) ==
    /\ staging[k].active
    /\ staging' = [staging EXCEPT ![k] = [active |-> FALSE, last |-> "failed"]]
    /\ UNCHANGED <<clock, store, pending, completed, nextCall, published,
                   builds, readers, resp>>
    /\ UNCHANGED <<baseline, authVars, uiVars>>

(* a ranking request starts and captures the published snapshots *)
RequestBegin(r) ==
    /\ \A x \in readers : x.id # r
    /\ readers' = readers \cup {[id |-> r, snaps |-> published]}
    /\ UNCHANGED <<clock, store, pending, completed, nextCall, published,
                   staging, builds, resp>>
    /\ UNCHANGED <<baseline, authVars, uiVars>>

(* the request is answered from the snapshots it captured *)
RequestEnd(r) ==
    /\ \E x \in readers : x.id = r /\ readers' = readers \ {x}
    /\ UNCHANGED <<clock, store, pending, completed, nextCall, published,
                   staging, builds, resp>>
    /\ UNCHANGED <<baseline, authVars, uiVars>>

NextSnap ==
    \/ StoreEvent
    \/ \E k \in Kinds : RebuildBegin(k)
    \/ \E k \in Kinds : RebuildStep(k)
    \/ \E k \in Kinds : RebuildComplete(k)
    \/ \E k \in Kinds : RebuildFail(k)
    \/ \E r \in 1..MaxReaders : RequestBegin(r)
    \/ \E r \in 1..MaxReaders : RequestEnd(r)

SpecSnap == Init /\ [][NextSnap]_vars

----------------------------------------------------------------------------
(* Popularity ticks.  Clicks arrive between the ticks of the Popularity     *)
(* Tracker; a tick decays every score and adds the clicks that arrived     *)
(* since the previous tick.  baseline keeps, per item, the score published  *)
(* by the last tick that added clicks to it.                               *)

(* a click on the item arrives *)
PopClick(item) ==
    /\ TotalRows(store) < MaxEvents
    /\ store' = Posted(store, ClickBody("U12345", item), clock)
    /\ UNCHANGED <<clock, pending, completed, nextCall, published, staging,
                   builds, readers, resp, baseline, authVars, uiVars>>

(* the popularity tick runs to completion and publishes its snapshot *)
PopularityTick ==
    /\ published["popularity"].meta.exp < MaxDecayTicks
    /\ LET prev == published["popularity"]
           snap == BuildOf("popularity", ItemIds, prev, store, clock)
       IN  /\ published' = [published EXCEPT !["popularity"] = snap]
           /\ baseline' = [i \in ItemIds |->
                             IF FreshCount(i, store, prev.meta.counted) > 0
                             THEN [num |-> snap.data[i], exp |-> snap.meta.exp]
                             ELSE baseline[i]]
    /\ UNCHANGED <<clock, store, pending, completed, nextCall, staging,
                   builds, readers, resp, authVars, uiVars>>

NextPop ==
    \/ \E item \in ItemIds : PopClick(item)
    \/ PopularityTick

SpecPop == Init /\ [][NextPop]_vars

----------------------------------------------------------------------------
(* Requests to the account service, each handled without interruption.     *)
(* Only ann@x.io registers; bob@x.io stays unknown to the service.         *)

RegisterInitBodies ==
    {[name |-> "Ann", email |-> "ann@x.io"],
     [name |-> "A", email |-> "ann@x.io"],
     [name |-> "Ann", email |-> "ann.x.io"]}

VerifyBodies(password) ==
    {[email |-> "ann@x.io", otp |-> o, password |-> password,
      confirmPassword |-> password] : o \in OtpCodes}
    \cup {[email |-> "ann@x.io", otp |-> "12", password |-> password,
           confirmPassword |-> password],
          [email |-> "ann@x.io", otp |-> "111111", password |-> "password",
           confirmPassword |-> "password"],
          [email |-> "ann@x.io", otp |-> "111111", password |-> password,
           confirmPassword |-> "Ab1"],
          [email |-> "bob@x.io", otp |-> "111111", password |-> password,
           confirmPassword |-> password]}

LoginBodies ==
    {[email |-> "ann@x.io", password |-> "Passw0rd"],
     [email |-> "ann@x.io", password |-> "N3wSecret"],
     [email |-> "bob@x.io", password |-> "Passw0rd"],
     [email |-> "ann.x.io", password |-> "Passw0rd"],
     [email |-> "ann@x.io", password |-> ""]}

ResetInitBodies ==
    {[email |-> "ann@x.io"], [email |-> "bob@x.io"], [email |-> "ann.x.io"]}

(* the client takes the answer; the next request can be sent *)
TakeReply ==
    /\ replies # NoReply
    /\ replies' = NoReply
    /\ UNCHANGED <<time, users, tempRegs, mailbox, requests, tally>>
    /\ UNCHANGED <<recVars, baseline, uiVars>>

PostRegisterInit(body, otp) ==
    LET r == RegisterInit(users, tempRegs, body, otp, time) IN
    /\ replies = NoReply
    /\ r.mail # <<>> => tally["registration"].issued < MaxOtps
    /\ tempRegs' = r.tempRegs
    /\ mailbox' = Deliver(mailbox, "registration", r.mail, time)
    /\ tally' = Issued(tally, "registration", r.mail)
    /\ replies' = Answered("/register/init", body, r.reply)
    /\ UNCHANGED <<time, users, requests>>
    /\ UNCHANGED <<recVars, baseline, uiVars>>

PostRegisterVerify(body) ==
    LET r == RegisterVerify(users, tempRegs, body, time)
    IN  /\ replies = NoReply
        /\ \A t \in FindByEmail(tempRegs, body.email) : t.otpAttempts < MaxVerifies
        /\ users' = r.users
        /\ tempRegs' = r.tempRegs
        /\ tally' = Refused(tally, "registration", r.reply.status)
        /\ replies' = Answered("/register/verify", body, r.reply)
        /\ UNCHANGED <<time, mailbox, requests>>
        /\ UNCHANGED <<recVars, baseline, uiVars>>

PostLogin(body) ==
    /\ replies = NoReply
    /\ replies' = Answered("/login", body, Login(users, body))
    /\ UNCHANGED <<time, users, tempRegs, mailbox, requests, tally>>
    /\ UNCHANGED <<recVars, baseline, uiVars>>

PostLegacyLogin(body) ==
    /\ replies = NoReply
    /\ replies' = Answered("/login (first route)", body, LegacyLogin(users, body))
    /\ UNCHANGED <<time, users, tempRegs, mailbox, requests, tally>>
    /\ UNCHANGED <<recVars, baseline, uiVars>>

PostPasswordResetInit(body, otp) ==
    LET r == PasswordResetInit(users, body, otp, time) IN
    /\ replies = NoReply
    /\ r.mail # <<>> => tally["reset"].issued < MaxOtps
    /\ users' = r.users
    /\ mailbox' = Deliver(mailbox, "reset", r.mail, time)
    /\ tally' = Issued(tally, "reset", r.mail)
    /\ replies' = Answered("/password-reset/init", body, r.reply)
    /\ UNCHANGED <<time, tempRegs, requests>>
    /\ UNCHANGED <<recVars, baseline, uiVars>>

PostPasswordResetVerify(body) ==
    LET r == PasswordResetVerify(users, body, time)
    IN  /\ replies = NoReply
        /\ users' = r.users
        /\ tally' = Refused(tally, "reset", r.reply.status)
        /\ replies' = Answered("/password-reset/verify", body, r.reply)
        /\ UNCHANGED <<time, tempRegs, mailbox, requests>>
        /\ UNCHANGED <<recVars, baseline, uiVars>>

(* half a rate-limit window passes; at the end of the run, the hour after *)
(* which the TTL index removes a temporary registration                    *)
Pass(d) ==
    /\ replies = NoReply
    /\ IF d = TTL_SECONDS THEN time = MaxTime ELSE time + d <= MaxTime
    /\ time' = time + d
    /\ UNCHANGED <<users, tempRegs, mailbox, requests, replies, tally>>
    /\ UNCHANGED <<recVars, baseline, uiVars>>

(* the TTL monitor removes a temporary registration created an hour ago *)
TtlExpire ==
    /\ replies = NoReply
    /\ \E t \in tempRegs :
          /\ time >= t.createdAt + TTL_SECONDS
          /\ tempRegs' = tempRegs \ {t}
    /\ UNCHANGED <<time, users, mailbox, requests, replies, tally>>
    /\ UNCHANGED <<recVars, baseline, uiVars>>

NextAuth ==
    \/ TakeReply
    \/ \E body \in RegisterInitBodies, otp \in OtpCodes : PostRegisterInit(body, otp)
    \/ \E body \in VerifyBodies("Passw0rd") : PostRegisterVerify(body)
    \/ \E body \in LoginBodies : PostLogin(body)
    \/ \E body \in LoginBodies : PostLegacyLogin(body)
    \/ \E body \in ResetInitBodies, otp \in OtpCodes : PostPasswordResetInit(body, otp)
    \/ \E body \in VerifyBodies("N3wSecret") : PostPasswordResetVerify(body)
    \/ \E d \in {RATE_LIMIT_SECONDS \div 2, TTL_SECONDS} : Pass(d)
    \/ TtlExpire

SpecAuth == Init /\ [][NextAuth]_vars

----------------------------------------------------------------------------
(* Verify requests handled at the same time.  A handler runs up to its     *)
(* next awaited database call without interruption; between two awaited    *)
(* calls the other handlers run.  The requests arrive within one second,   *)
(* so the clock does not move.                                             *)

RaceBodies(password) ==
    {[email |-> "ann@x.io", otp |-> o, password |-> password,
      confirmPassword |-> password] : o \in OtpCodes}

FreeIds == {i \in 1..MaxInFlight : \A q \in requests : q.id # i}

(* /register/verify up to user.save() *)
RegisterVerifyBegin(id, body) ==
    LET r == RegisterVerifyStart(tempRegs, body, time)
        s == tally["registration"].issued
        t1 == Refused(tally, "registration", IF r.done THEN r.reply.status ELSE 0)
    IN  /\ id \in FreeIds /\ \A i \in FreeIds : id <= i
        /\ replies = NoReply
        /\ \A t \in FindByEmail(tempRegs, body.email) : t.otpAttempts < MaxVerifies
        /\ tempRegs' = r.tempRegs
        /\ tally' = IF r.compared
                    THEN Counted(t1, "registration", s,
                                 \E t \in FindByEmail(tempRegs, body.email) :
                                     hashData(body.otp) # t.otp,
                                 FALSE)
                    ELSE t1
        /\ IF r.done
           THEN /\ replies' = Answered("/register/verify", body, r.reply)
                /\ UNCHANGED requests
           ELSE /\ requests' = requests \cup
                      {[id |-> id, route |-> "/register/verify", body |-> body,
                        next |-> "save", doc |-> r.doc, otp |-> s]}
                /\ UNCHANGED replies
        /\ UNCHANGED <<time, users, mailbox>>
        /\ UNCHANGED <<recVars, baseline, uiVars>>

(* await user.save() *)
RegisterVerifySaveStep(id) ==
    \E q \in requests :
        /\ q.id = id /\ q.route = "/register/verify" /\ q.next = "save"
        /\ LET r == RegisterVerifySave(users, q.doc, q.body) IN
           /\ users' = r.users
           /\ IF r.done
              THEN /\ replies = NoReply
                   /\ replies' = Answered(q.route, q.body, r.reply)
                   /\ requests' = requests \ {q}
                   /\ UNCHANGED tally
              ELSE /\ requests' = (requests \ {q}) \cup
                         {[q EXCEPT !.next = "delete", !.doc = r.reply]}
                   /\ tally' = Counted(tally, "registration", q.otp, FALSE, TRUE)
                   /\ UNCHANGED replies
        /\ UNCHANGED <<time, tempRegs, mailbox>>
        /\ UNCHANGED <<recVars, baseline, uiVars>>

(* await TemporaryRegistration.deleteOne({ email }), then 201 *)
RegisterVerifyEnd(id) ==
    \E q \in requests :
        /\ q.id = id /\ q.route = "/register/verify" /\ q.next = "delete"
        /\ replies = NoReply
        /\ tempRegs' = RegisterVerifyDelete(tempRegs, q.body)
        /\ replies' = Answered(q.route, q.body, q.doc)
        /\ requests' = requests \ {q}
        /\ UNCHANGED <<time, users, mailbox, tally>>
        /\ UNCHANGED <<recVars, baseline, uiVars>>

(* /password-reset/verify up to user.save() *)
PasswordResetVerifyBegin(id, body) ==
    LET r == PasswordResetVerifyStart(users, body, time)
        s == tally["reset"].issued
        t1 == Refused(tally, "reset", IF r.done THEN r.reply.status ELSE 0)
    IN  /\ id \in FreeIds /\ \A i \in FreeIds : id <= i
        /\ replies = NoReply
        /\ tally' = IF r.compared /\ r.doc.resetOtp # Undefined
                    THEN Counted(t1, "reset", s, r.write = "attempt", FALSE)
                    ELSE t1
        /\ IF r.done
           THEN /\ replies' = Answered("/password-reset/verify", body, r.reply)
                /\ UNCHANGED requests
           ELSE /\ requests' = requests \cup
                      {[id |-> id, route |-> "/password-reset/verify", body |-> body,
                        next |-> r.write, doc |-> r.doc, otp |-> s]}
                /\ UNCHANGED replies
        /\ UNCHANGED <<time, users, tempRegs, mailbox>>
        /\ UNCHANGED <<recVars, baseline, uiVars>>

(* await user.save(), then 401 or 200 *)
PasswordResetVerifyEnd(id) ==
    \E q \in requests :
        /\ q.id = id /\ q.route = "/password-reset/verify"
        /\ replies = NoReply
        /\ LET r == PasswordResetVerifySave(users, q.doc, q.next, q.body) IN
           /\ users' = r.users
           /\ replies' = Answered(q.route, q.body, r.reply)
           /\ tally' = IF q.otp > 0
                       THEN Counted(tally, "reset", q.otp, FALSE, r.reply.status = 200)
                       ELSE tally
        /\ requests' = requests \ {q}
        /\ UNCHANGED <<time, tempRegs, mailbox>>
        /\ UNCHANGED <<recVars, baseline, uiVars>>

(* overlapping /register/verify requests for one temporary registration *)
NextRaceRegister ==
    \/ TakeReply
    \/ PostRegisterInit([name |-> "Ann", email |-> "ann@x.io"], "111111")
    \/ \E id \in 1..MaxInFlight, body \in RaceBodies("Passw0rd") :
          RegisterVerifyBegin(id, body)
    \/ \E id \in 1..MaxInFlight : RegisterVerifySaveStep(id)
    \/ \E id \in 1..MaxInFlight : RegisterVerifyEnd(id)

SpecRaceRegister == Init /\ [][NextRaceRegister]_vars

(* the account is registered in two requests *)
RegisterAccountInit ==
    /\ users = {}
    /\ PostRegisterInit([name |-> "Ann", email |-> "ann@x.io"], "111111")

RegisterAccountVerify ==
    /\ users = {}
    /\ PostRegisterVerify([email |-> "ann@x.io", otp |-> "111111",
                           password |-> "Passw0rd", confirmPassword |-> "Passw0rd"])

(* its owner asks for a reset OTP *)
RequestResetOtp ==
    /\ tally["reset"].issued < MaxResets
    /\ PostPasswordResetInit([email |-> "ann@x.io"], "111111")

(* the account is registered, then overlapping /password-reset/verify      *)
(* requests for it arrive                                                  *)
NextRace ==
    \/ TakeReply
    \/ RegisterAccountInit
    \/ RegisterAccountVerify
    \/ RequestResetOtp
    \/ \E id \in 1..MaxInFlight, body \in RaceBodies("N3wSecret") :
          PasswordResetVerifyBegin(id, body)
    \/ \E id \in 1..MaxInFlight : PasswordResetVerifyEnd(id)

SpecRace == Init /\ [][NextRace]_vars

----------------------------------------------------------------------------
(* The browser.  A gesture of the user starts a route; the query of the    *)
(* route settles in a later step.                                          *)

UrlInputs ==
    {[path |-> "/", id |-> NULL, q |-> NoQuery],
     [path |-> "/login", id |-> NULL, q |-> NoQuery],
     [path |-> "/product", id |-> "b08cf3d7qr", q |-> NoQuery],
     [path |-> "/product", id |-> "ZZZZZZZZZ9", q |-> NoQuery],
     [path |-> "/search", id |-> NULL, q |-> <<Blank, "Earbuds", Blank>>],
     [path |-> "/search", id |-> NULL, q |-> <<Blank>>],
     [path |-> "/search", id |-> NULL, q |-> <<>>]}

LoginInputs ==
    {[email |-> "ann@x.io", password |-> "Passw0rd"],
     [email |-> "ann@x.io", password |-> "password"]}

(* the user enters a URL or reloads the page *)
OpenUrl(path, id, q) ==
    /\ page.query # "loading"
    /\ LET m == Mount(path, id, q, FALSE, localStorage) IN
          /\ page' = m.page
          /\ outbox' = m.sent
    /\ gesture' = [kind |-> "open", product |-> NULL]
    /\ UNCHANGED localStorage
    /\ UNCHANGED <<recVars, baseline, authVars>>

(* the response of the query of HomePage arrives *)
HomeSettles ==
    /\ page.path = "/" /\ page.query = "loading"
    /\ LET userId == TemplateLiteral(localStorage.userId) IN
       \E sample \in HomeSamples(store, userId, clock) :
          LET r == HomeEndpoint(published, store, clock, userId, Undefined, sample) IN
          page' = [page EXCEPT
                      !.query = IF r.status = 200 THEN "success" ELSE "error",
                      !.cards = IF r.status = 200 THEN HomeCards(r.body) ELSE {}]
    /\ UNCHANGED <<localStorage, outbox, gesture>>
    /\ UNCHANGED <<recVars, baseline, authVars>>

(* the response of the query of ProductPage arrives; onSuccess logs *)
ProductSettles ==
    /\ page.path = "/product" /\ page.query = "loading"
    /\ LET v == ProductPage(published, page.id, page.cached, localStorage.userId)
           logs == ProductPageLogs(published, page.id)
           body == ClickBody(localStorage.userId, ToUpperCase(page.id))
       IN  /\ logs /\ WouldInsert(body) => TotalRows(store) < MaxEvents
           /\ store' = IF logs THEN Posted(store, body, clock) ELSE store
           /\ outbox' = IF logs THEN Append(outbox, InteractionRequest(logInteraction(body).sent[1]))
                      ELSE outbox
           /\ page' = [page EXCEPT
                          !.query = IF v.status = 200 THEN "success" ELSE "error",
                          !.cards = IF v.status = 200 /\ v.body.view = "product"
                                    THEN SeqToSet(v.body.shown) ELSE {}]
    /\ UNCHANGED <<localStorage, gesture>>
    /\ UNCHANGED <<clock, pending, completed, nextCall, published, staging,
                   builds, readers, resp>>
    /\ UNCHANGED <<baseline, authVars>>

(* the response of the query of SearchPage arrives; onSuccess logs *)
SearchSettles ==
    /\ page.path = "/search" /\ page.query = "loading"
    /\ LET v == SearchPage(published, store, clock, page.q, localStorage.userId)
           logs == SearchPageLogs(published, store, clock, page.q)
           body == SearchBody(localStorage.userId, page.q)
       IN  /\ logs /\ WouldInsert(body) => TotalRows(store) < MaxEvents
           /\ store' = IF logs THEN Posted(store, body, clock) ELSE store
           /\ outbox' = IF logs THEN Append(outbox, InteractionRequest(logInteraction(body).sent[1]))
                      ELSE outbox
           /\ page' = [page EXCEPT
                          !.query = IF v.status = 200 THEN "success" ELSE "error",
                          !.cards = IF v.status = 200
                                    THEN SeqToSet(v.body.results) ELSE {}]
    /\ UNCHANGED <<localStorage, gesture>>
    /\ UNCHANGED <<clock, pending, completed, nextCall, published, staging,
                   builds, readers, resp>>
    /\ UNCHANGED <<baseline, authVars>>

(* the user clicks the card of a product the page shows: onClick logs,    *)
(* the Link navigates to /product/ID with the product in its state         *)
ClickCard(product) ==
    /\ page.query = "success" /\ product \in page.cards
    /\ LET body == handleInteraction(localStorage.userId, product)
           m == Mount("/product", ToUpperCase(product), NoQuery, TRUE, localStorage)
       IN  /\ WouldInsert(body) => TotalRows(store) < MaxEvents
           /\ store' = Posted(store, body, clock)
           /\ page' = m.page
           /\ outbox' = <<InteractionRequest(logInteraction(body).sent[1])>> \o m.sent
    /\ gesture' = [kind |-> "click", product |-> product]
    /\ UNCHANGED localStorage
    /\ UNCHANGED <<clock, pending, completed, nextCall, published, staging,
                   builds, readers, resp>>
    /\ UNCHANGED <<baseline, authVars>>

(* the user submits the search form of the Navbar *)
SubmitSearch(query) ==
    /\ page.path \in {"/", "/product", "/search"}
    /\ page.query # "loading"
    /\ LET to == handleSearch(query) IN
       IF to = <<>>
       THEN UNCHANGED <<page, outbox>>
       ELSE LET m == Mount("/search", NULL, to[1], FALSE, localStorage) IN
            /\ page' = m.page
            /\ outbox' = m.sent
    /\ gesture' = [kind |-> "search", product |-> NULL]
    /\ UNCHANGED localStorage
    /\ UNCHANGED <<recVars, baseline, authVars>>

(* the user submits the login form: on a response with token and userId   *)
(* both are stored and the application navigates to /                     *)
SubmitLogin(body) ==
    /\ page.path = "/login"
    /\ LET response == Login(users, body) IN
       IF response.status = 200
       THEN LET storage == [userId |-> ObjectId(response.body.email),
                            token |-> response.body.token]
                m == Mount("/", NULL, NoQuery, FALSE, storage)
            IN  /\ localStorage' = storage
                /\ page' = m.page
                /\ outbox' = m.sent
       ELSE UNCHANGED <<localStorage, page, outbox>>
    /\ gesture' = [kind |-> "login", product |-> NULL]
    /\ UNCHANGED <<recVars, baseline, authVars>>

NextBrowser ==
    \/ TakeReply
    \/ RegisterAccountInit
    \/ RegisterAccountVerify
    \/ \E u \in UrlInputs : OpenUrl(u.path, u.id, u.q)
    \/ HomeSettles
    \/ ProductSettles
    \/ SearchSettles
    \/ \E p \in ItemIds : ClickCard(p)
    \/ \E q \in PageQueries : SubmitSearch(q)
    \/ \E body \in LoginInputs : SubmitLogin(body)

SpecBrowser == Init /\ [][NextBrowser]_vars

----------------------------------------------------------------------------
(* Properties *)

SearchOps == {"searchRecommendations", "search"}

(* the lists of a response body that the result limit applies to *)
ListsOf(r) ==
    CASE r.op = "getHomeRecommendations" ->
            {r.body.personalized, r.body.trending, r.body.best_value,
             r.body.diverse_picks}
              \cup {r.body.top_categories[c] : c \in Categories}
      [] r.op = "getProductRecommendations" -> {r.body.similar}
      [] OTHER -> {r.body.results}

C2_NewUserNotPersonalized ==
    resp.op = "getHomeRecommendations" /\ resp.status = 200 =>
        LET u == resp.req.user_id IN
        /\ store[u] = <<>> =>
              /\ resp.body.personalized = <<>>
              /\ resp.body.diverse_picks = <<>>
              /\ resp.body.trending # <<>>
              /\ resp.body.best_value # <<>>
              /\ \A c \in Categories : resp.body.top_categories[c] # <<>>
        /\ resp.body.personalized # <<>> =>
              \E i \in 1..Len(store[u]) : store[u][i].event_type \in EventTypes

(* a user without events is served while another user has a history *)
C2_Witness ==
    /\ resp.op = "getHomeRecommendations" /\ resp.status = 200
    /\ store[resp.req.user_id] = <<>>
    /\ TotalRows(store) > 0
    /\ resp.body.user_state = "NEW_USER"

(* C8: the limit a request is served with is the supplied limit clamped to *)
(* [1, 60] (home, similar items) or [1, 6000] (search), and 20, 20 and     *)
(* 2000 when none is supplied; no list of a response is longer than it     *)
C8_EffectiveLimit ==
    resp.op \in SearchOps \cup {"getHomeRecommendations", "getProductRecommendations"}
      /\ resp.sent # <<>> =>
        LET max == IF resp.op \in SearchOps THEN 6000 ELSE 60
            default == IF resp.op \in SearchOps THEN 2000 ELSE 20
            l == resp.req.limit
            n == resp.sent[1]
        IN  /\ l = Undefined => n = default
            /\ l # Undefined /\ l[1] < 1 => n = 1
            /\ l # Undefined /\ l[1] > max => n = max
            /\ l # Undefined /\ l[1] >= 1 /\ l[1] <= max => n = l[1]
            /\ resp.status = 200 => \A L \in ListsOf(resp) : Len(L) <= n

(* a limit of 0 is served as 1 and the answer is cut to one item *)
C8_Witness ==
    /\ resp.op = "getHomeRecommendations" /\ resp.status = 200
    /\ resp.req.limit = <<0>>
    /\ resp.sent = <<1>>
    /\ Len(resp.body.trending) = 1
    /\ Len(resp.body.personalized) = 1

(* C3 as stated: every identifier outside the catalog, "UNKNOWNID01"       *)
(* included, fails as not found                                            *)
C3_Original ==
    resp.op = "getProductRecommendations" /\ resp.req.product_id \notin ItemIds =>
        resp.outcome = "throw" /\ resp.status = 404

(* C3: a well-formed identifier that is not in the catalog fails as not    *)
(* found (404) and with no list; a malformed identifier, such as the       *)
(* 11-character "UNKNOWNID01", fails the format check before any lookup    *)
C3_UnknownItemFails ==
    /\ resp.op = "getProductRecommendations" =>
          LET id == resp.req.product_id IN
          /\ IsProductIdFormat(id) /\ id \notin ItemIds =>
                resp.outcome = "throw" /\ resp.status = 404
          /\ ~IsProductIdFormat(id) =>
                /\ resp.outcome = "throw" /\ resp.status = 0
                /\ resp.error = "Invalid product_id format."
                /\ resp.sent = <<>>
          /\ resp.outcome = "return" => id \in ItemIds
    /\ resp.op = "ProductPage" =>
          LET id == ToUpperCase(resp.req.id) IN
          /\ IsProductIdFormat(id) /\ id \notin ItemIds =>
                resp.status = 404 /\ resp.body.view = "error"
          /\ ~IsProductIdFormat(id) =>
                resp.status = 400 /\ resp.body.view = "error"

(* a well-formed identifier outside the catalog answered with 404 *)
C3_Witness ==
    /\ resp.op = "getProductRecommendations"
    /\ resp.req.product_id = "ZZZZZZZZZ9"
    /\ resp.outcome = "throw" /\ resp.status = 404

MissingRequiredField(body) ==
    \/ body.event_type = "product_click" /\ body.product_id = NULL
    \/ /\ body.event_type = "search_query"
       /\ (body.query = NoQuery \/ Trim(body.query) = <<>>)

HasRequiredField(row) ==
    /\ row.event_type = "product_click" => IsProductIdFormat(row.product_id)
    /\ row.event_type = "search_query" =>
          row.query # NoQuery /\ Trim(row.query) # <<>>

(* C4: recording a click without an item identifier, or a search whose     *)
(* query is empty after trimming, fails with a validation error and leaves *)
(* every event log as it was; every stored event has the field its kind    *)
(* requires                                                                *)
C4_RejectedLeavesLog ==
    [][/\ resp'.op = "trackInteraction" /\ MissingRequiredField(resp'.req) =>
            /\ resp'.outcome = "throw"
            /\ resp'.status \in {400, 422}
            /\ store' = store
       /\ \A u \in Users : \A i \in 1..Len(store'[u]) :
            HasRequiredField(store'[u][i])]_vars

(* a blank search is rejected while the log already holds an event *)
C4_Witness ==
    /\ resp.op = "trackInteraction"
    /\ resp.req.event_type = "search_query" /\ resp.req.query = <<Blank>>
    /\ resp.outcome = "throw" /\ resp.status = 400
    /\ Len(store[resp.req.user_id]) > 0

HomeAnswer(r, tables, s) ==
    HomeEndpoint(published, tables, clock, r.req.user_id, r.sent, s).body

StrictlyIncreasing(rows) ==
    \A i \in 1..(Len(rows) - 1) : rows[i].timestamp < rows[i + 1].timestamp

C10_AtomicPublication ==
    /\ [](\A k \in Kinds :
            /\ IsComplete(published[k])
            /\ \A x \in readers : IsComplete(x.snaps[k]))
    /\ [][\A k \in Kinds :
            /\ published'[k] # published[k] =>
                  /\ staging[k].active /\ ~staging'[k].active
                  /\ staging'[k].last = "published"
                  /\ published'[k] = BuildOf(k, ItemIds, staging[k].prev,
                                             staging[k].input, staging[k].now)
            /\ staging'[k].active => published'[k] = published[k]
            /\ staging'[k].last = "failed" /\ staging[k].active =>
                  published'[k] = published[k]
            /\ \A x \in readers \cap readers' : x.snaps \in
                  {y.snaps : y \in {z \in readers' : z.id = x.id}}]_vars

(* a request is in flight on complete snapshots while one rebuild has      *)
(* built part of its snapshot and another has failed                       *)
C10_Witness ==
    /\ readers # {}
    /\ \E k \in Kinds :
          /\ staging[k].active
          /\ staging[k].done > 0 /\ staging[k].done < Len(CatalogOrder)
          /\ ~IsComplete(staging[k].snap)
          /\ staging[k].snap.data # [i \in staging[k].snap.built |-> published[k].data[i]]
    /\ \E k \in Kinds : ~staging[k].active /\ staging[k].last = "failed"

----------------------------------------------------------------------------
(* the item has no click among the rows that arrived after the last tick *)
NoFreshInteraction(item) ==
    \A u \in Users :
        \A k \in (published["popularity"].meta.counted[u] + 1)..Len(store[u]) :
            store[u][k].product_id # item

----------------------------------------------------------------------------
RankingOps ==
    {"getHomeRecommendations", "getProductRecommendations",
     "searchRecommendations", "search"}

(* the request of the last call is well-formed *)
WellFormedRequest(r) ==
    CASE r.op = "getHomeRecommendations" -> IsUserIdFormat(r.req.user_id)
      [] r.op = "getProductRecommendations" -> IsProductIdFormat(r.req.product_id)
      [] OTHER -> Trim(r.req.query) # <<>>

(* the list a ranking answer is read for *)
RankedList(r) ==
    CASE r.op = "getHomeRecommendations" -> r.body.trending
      [] r.op = "getProductRecommendations" -> r.body.similar
      [] OTHER -> r.body.results

----------------------------------------------------------------------------
(* the step is a request to the route, taken by the service *)
Handles(route) == replies = NoReply /\ replies'.route = route

(* C13: POST /register/verify creates a User only when a                   *)
(* TemporaryRegistration exists for the e-mail, the HMAC of the submitted  *)
(* OTP equals the stored hash, the time is not past otpExpiry and the      *)
(* attempt counter, this request's increment included, is at most          *)
(* MAX_OTP_ATTEMPTS; in every other case the User collection is unchanged  *)
(* and the answer is not 201                                               *)
C13_VerifyCreatesUser ==
    [][Handles("/register/verify") =>
        LET body == replies'.req
            passes == \E t \in tempRegs :
                        /\ t.email = body.email
                        /\ hashData(body.otp) = t.otp
                        /\ time <= t.otpExpiry
                        /\ t.otpAttempts + 1 <= MAX_OTP_ATTEMPTS
        IN  /\ users' # users => passes
            /\ replies'.status = 201 => passes
            /\ ~passes => users' = users /\ replies'.status \in {400, 401, 429}
            /\ users' # users =>
                  /\ replies'.status = 201
                  /\ \E u \in users' : users' = users \cup {u} /\ u.email = body.email]_vars

(* the account is created with an OTP used at the instant of its expiry *)
C13_Witness ==
    /\ replies.route = "/register/verify" /\ replies.status = 201
    /\ FindByEmail(users, replies.req.email) # {}
    /\ FindByEmail(tempRegs, replies.req.email) = {}
    /\ \E m \in mailbox :
          /\ m.purpose = "registration" /\ m.otp = replies.req.otp
          /\ time = m.at + OTP_EXPIRY_MINUTES * 60

----------------------------------------------------------------------------
(* verifications of the reset OTP number s that were answered 401: the     *)
(* wrong guesses compared with it, less those whose handler has not yet    *)
(* saved and answered                                                      *)
FailedVerifications(s) ==
    tally["reset"].wrong[s]
        - Cardinality({q \in requests :
                          /\ q.route = "/password-reset/verify"
                          /\ q.next = "attempt" /\ q.otp = s
                          /\ q.doc.resetOtp # Undefined})

(* C14: POST /password-reset/verify changes the password only when the     *)
(* HMAC of the submitted OTP equals the stored resetOtp, the OTP is not    *)
(* expired and fewer than MAX_OTP_ATTEMPTS failed verifications are        *)
(* recorded for it; once three verifications of an OTP have failed, no     *)
(* further verify request gets past the attempt check (each is answered    *)
(* 429, a correct OTP included) and the password stays as it is, until     *)
(* /password-reset/init issues a new OTP                                   *)
C14_Original ==
    [][LET s == tally["reset"].issued IN
       /\ s > 0
       /\ FailedVerifications(s) >= MAX_OTP_ATTEMPTS
       /\ tally'["reset"].issued = s
       => /\ \A q \in requests' \ requests : q.route # "/password-reset/verify"
          /\ \A u \in users : \E v \in users' :
                v.email = u.email /\ v.password = u.password]_vars

(* C15: under any interleaving of verify requests for one account, at most *)
(* MAX_OTP_ATTEMPTS wrong guesses are ever compared with one issued OTP,   *)
(* for the registration OTP and for the password-reset OTP alike           *)
C15_Original ==
    \A p \in Purposes : \A s \in 1..MaxOtps :
        tally[p].wrong[s] <= MAX_OTP_ATTEMPTS

(* C20: an issued OTP is used successfully at most once: after the         *)
(* verification that succeeds on it, no verify request with the same OTP   *)
(* succeeds again                                                          *)
C20_Original ==
    \A p \in Purposes : \A s \in 1..MaxOtps : tally[p].used[s] <= 1

----------------------------------------------------------------------------
(* C16: after /register/verify has answered 429 'Too many attempts.        *)
(* Request new OTP', an OTP issued by a later successful /register/init    *)
(* for the e-mail has its own attempt budget: /register/verify with that   *)
(* OTP, unexpired, and a valid password creates the account                *)
C16_Original ==
    [][Handles("/register/verify") =>
        LET body == replies'.req
            reg == tally["registration"]
        IN  /\ ValidPassword(body) /\ ValidOtp(body)
            /\ reg.refused > 0 /\ reg.issued > reg.refused
            /\ \E m \in mailbox :
                  /\ m.purpose = "registration" /\ m.to = body.email
                  /\ m.otp = body.otp
                  /\ time <= m.at + OTP_EXPIRY_MINUTES * 60
            /\ \E t \in tempRegs : t.email = body.email /\ t.otp = hashData(body.otp)
            => /\ replies'.status = 201
               /\ FindByEmail(users', body.email) # {}]_vars

(* C17: for one e-mail, two /register/init requests that both succeed are  *)
(* at least RATE_LIMIT_SECONDS apart: a request that arrives sooner after  *)
(* the previous successful one, while the registration is still open, is   *)
(* answered 429 and neither stores nor sends a new OTP                     *)
C17_Original ==
    [][Handles("/register/init") =>
        LET body == replies'.req IN
        /\ ValidRegistration(body)
        /\ FindByEmail(users, body.email) = {}
        /\ FindByEmail(tempRegs, body.email) # {}
        /\ \E m \in mailbox :
              /\ m.purpose = "registration" /\ m.to = body.email
              /\ time - m.at < RATE_LIMIT_SECONDS
        => /\ replies'.status = 429
           /\ tempRegs' = tempRegs
           /\ mailbox' = mailbox]_vars

(* C18: in every state of the service, POST /password-reset/init answers a *)
(* well-formed e-mail of a registered user exactly as it answers a         *)
(* well-formed e-mail that no user has: same status, same body             *)
C18_Original ==
    \A otp \in OtpCodes :
        \A a, b \in {x \in ResetInitBodies : IsEmail(x.email)} :
            PasswordResetInit(users, a, otp, time).reply
                = PasswordResetInit(users, b, otp, time).reply

(* C19: a /login that fails on credentials is answered 401 'Invalid        *)
(* credentials', whether the e-mail is unknown or the password is wrong,   *)
(* by both /login routes; a token is issued only when a user with the      *)
(* e-mail exists and the password matches its hash                         *)
C19_LoginUniform ==
    replies.route \in {"/login", "/login (first route)"} =>
        LET body == replies.req
            matches == \E u \in users :
                          /\ u.email = body.email
                          /\ BcryptCompare(body.password, u.password)
            checked == \/ replies.route = "/login (first route)"
                       \/ IsEmail(body.email) /\ AuthChars(body.password) # <<>>
        IN  /\ replies.status = 200 <=> checked /\ matches
            /\ replies.status = 200 =>
                  \E u \in users : u.email = body.email /\ replies.body.token # <<>>
            /\ checked /\ ~matches =>
                  /\ replies.status = 401
                  /\ replies.body = [error |-> "Invalid credentials"]
            /\ ~checked => replies.status = 400

(* a wrong password for a registered user is answered as the same request *)
(* for an unknown e-mail would be                                         *)
C19_Witness ==
    /\ replies.route = "/login" /\ replies.status = 401
    /\ FindByEmail(users, replies.req.email) # {}
    /\ FindByEmail(users, "bob@x.io") = {}
    /\ Login(users, [email |-> "bob@x.io", password |-> replies.req.password])
          = Reply(replies.status, replies.body)

----------------------------------------------------------------------------
(* the account operations that the token version is stated for *)
TokenRoutes ==
    {"/login", "/login (first route)", "/password-reset/init", "/password-reset/verify"}

(* C21: every /password-reset/verify answered 200 raises the tokenVersion  *)
(* of its user by exactly 1; a login, a /password-reset/init and a         *)
(* /password-reset/verify that fails leave the tokenVersion and the stored *)
(* password of every user as they were                                     *)
C21_Original ==
    [][/\ replies = NoReply
       /\ replies'.route \in TokenRoutes
       => \A u \in users : \E v \in users' :
             /\ v.email = u.email
             /\ IF /\ replies'.route = "/password-reset/verify"
                   /\ replies'.status = 200
                   /\ replies'.req.email = u.email
                THEN v.tokenVersion = u.tokenVersion + 1
                ELSE /\ v.tokenVersion = u.tokenVersion
                     /\ v.password = u.password]_vars

----------------------------------------------------------------------------
(* the product_click interactions for the product, among the requests sent *)
ClicksSent(product) ==
    {k \in 1..Len(outbox) :
        /\ outbox[k].kind = "interaction"
        /\ outbox[k].event_type = "product_click"
        /\ ToUpperCase(outbox[k].product_id) = ToUpperCase(product)}

(* C22: once the click on a product card and the navigation it starts are *)
(* over (the query of ProductPage has settled), exactly one product_click  *)
(* interaction for the product has been sent                               *)
C22_Original ==
    gesture.kind = "click" /\ page.query \in {"success", "error"}
        => Cardinality(ClicksSent(gesture.product)) = 1

(* C23: no search request the browser sends has a query that is empty     *)
(* after trimming                                                          *)
C23_NoEmptySearch ==
    \A k \in 1..Len(outbox) :
        outbox[k].kind = "search" => Trim(outbox[k].query) # <<>>

(* a search request sent from the Navbar form, and one sent for a URL     *)
C23_Witness ==
    /\ gesture.kind = "search"
    /\ \E k \in 1..Len(outbox) : outbox[k].kind = "search" /\ outbox[k].query = <<"Earbuds">>

(* C24: a home-recommendations request or an interaction is sent only     *)
(* from a browser whose localStorage holds the userId (and token) stored   *)
(* by a successful login                                                   *)
C24_Original ==
    \A k \in 1..Len(outbox) :
        outbox[k].kind \in {"home", "interaction"} => ProtectedRoute(localStorage)

=============================================================================
